---- MODULE Spec2Model ----
(***************************************************************************)
(* A model of the diff / match / patch engine of src/src/index.js.        *)
(*                                                                         *)
(* Strings are sequences of UTF-16 code units (naturals).  A diff tuple    *)
(* is a record [op, text]; an edit script is a sequence of tuples; a patch *)
(* is a record [diffs, start1, start2, length1, length2].  Every function  *)
(* of the library is an operator that computes what the code computes,     *)
(* loop by loop; the specifications below draw the arguments of a call     *)
(* from bounded sets and apply the operators.                              *)
(***************************************************************************)
EXTENDS Integers, Sequences, FiniteSets, TLC

VARIABLES pc, cfg, in, out

vars == <<pc, cfg, in, out>>

(***************************************************************************)
(* Numbers and JavaScript string built-ins.                                *)
(***************************************************************************)
Min(a, b) == IF a < b THEN a ELSE b

Max(a, b) == IF a > b THEN a ELSE b

Abs(a) == IF a < 0 THEN 0 - a ELSE a

SetMin(S) == CHOOSE x \in S : \A y \in S : x <= y

SetMax(S) == CHOOSE x \in S : \A y \in S : x >= y

Clamp(i, n) == IF i < 0 THEN 0 ELSE IF i > n THEN n ELSE i

\* String.prototype.substring(start, end): both clamped to [0, length],
\* swapped when start > end.
substring(s, start, end) ==
  LET a == Clamp(start, Len(s))
      b == Clamp(end, Len(s))
  IN SubSeq(s, Min(a, b) + 1, Max(a, b))

\* String.prototype.substring(start).
substringFrom(s, start) == substring(s, start, Len(s))

\* String.prototype.charAt(i): the empty string outside the string.
charAt(s, i) == IF i >= 0 /\ i < Len(s) THEN <<s[i + 1]>> ELSE <<>>

\* String.prototype.indexOf(pattern, from).
indexOf(s, p, from) ==
  LET f == Clamp(from, Len(s))
      hits == {i \in f..(Len(s) - Len(p)) : SubSeq(s, i + 1, i + Len(p)) = p}
  IN IF hits = {} THEN -1 ELSE SetMin(hits)

\* String.prototype.lastIndexOf(pattern, from).
lastIndexOf(s, p, from) ==
  LET f == Clamp(from, Len(s))
      hits == {i \in 0..Min(f, Len(s) - Len(p)) :
                 SubSeq(s, i + 1, i + Len(p)) = p}
  IN IF hits = {} THEN -1 ELSE SetMax(hits)

\* splice without the items to insert.
spliceNoItems(arr, start, deleteCount, items) ==
  LET s == IF start < 0 THEN Max(Len(arr) + start, 0) ELSE Min(start, Len(arr))
      n == Clamp(deleteCount, Len(arr) - s)
  IN SubSeq(arr, 1, s) \o SubSeq(arr, s + n + 1, Len(arr))

\* Array.prototype.splice(start, deleteCount, ...items) on a sequence,
\* start counted from 0.
splice(arr, start, deleteCount, items) ==
  LET s == IF start < 0 THEN Max(Len(arr) + start, 0) ELSE Min(start, Len(arr))
      n == Clamp(deleteCount, Len(arr) - s)
  IN SubSeq(arr, 1, s) \o items \o SubSeq(arr, s + n + 1, Len(arr))

RECURSIVE Concat(_)
\* Array.prototype.join("") of a sequence of strings.
Concat(ss) == IF ss = <<>> THEN <<>> ELSE Head(ss) \o Concat(Tail(ss))

(***************************************************************************)
(* JavaScript arrays and objects as maps: a read of a cell never written   *)
(* yields undefined, and arithmetic on it NaN; NaN stands for both, and    *)
(* every comparison with it is false.                                      *)
(***************************************************************************)
NaN == -1000000

vGet(v, i) == IF i \in DOMAIN v THEN v[i] ELSE NaN

vSet(v, i, x) == IF i \in DOMAIN v THEN [v EXCEPT ![i] = x] ELSE (i :> x) @@ v

jsLt(a, b) == a # NaN /\ b # NaN /\ a < b

jsGt(a, b) == a # NaN /\ b # NaN /\ a > b

jsGe(a, b) == a # NaN /\ b # NaN /\ a >= b

jsAdd(a, b) == IF a = NaN \/ b = NaN THEN NaN ELSE a + b

(***************************************************************************)
(* Diff tuples.                                                            *)
(***************************************************************************)
DIFF_DELETE == -1

DIFF_INSERT == 1

DIFF_EQUAL == 0

Diff(op, text) == [op |-> op, text |-> text]

\* diffs[i] with i counted from 0, as in the source.
At(diffs, i) == diffs[i + 1]

SetText(diffs, i, t) == [diffs EXCEPT ![i + 1].text = t]

SetOp(diffs, i, o) == [diffs EXCEPT ![i + 1].op = o]

RECURSIVE diffText1(_)
diffText1(diffs) ==
  IF diffs = <<>> THEN <<>>
  ELSE (IF Head(diffs).op # DIFF_INSERT THEN Head(diffs).text ELSE <<>>)
         \o diffText1(Tail(diffs))

RECURSIVE diffText2(_)
diffText2(diffs) ==
  IF diffs = <<>> THEN <<>>
  ELSE (IF Head(diffs).op # DIFF_DELETE THEN Head(diffs).text ELSE <<>>)
         \o diffText2(Tail(diffs))

(***************************************************************************)
(* Common prefix and suffix: the binary searches of the source.            *)
(***************************************************************************)
RECURSIVE diffCommonPrefixLoop(_, _, _, _, _, _)
diffCommonPrefixLoop(text1, text2, pointermin, pointermax, pointermid, pointerstart) ==
  IF pointermin < pointermid
  THEN IF substring(text1, pointerstart, pointermid)
            = substring(text2, pointerstart, pointermid)
       THEN diffCommonPrefixLoop(text1, text2, pointermid, pointermax,
              ((pointermax - pointermid) \div 2) + pointermid, pointermid)
       ELSE diffCommonPrefixLoop(text1, text2, pointermin, pointermid,
              ((pointermid - pointermin) \div 2) + pointermin, pointerstart)
  ELSE pointermid

\* The first comparison of the binary search taken as its result.
diffCommonPrefixWhole(text1, text2) ==
  IF text1 = <<>> \/ text2 = <<>> \/ charAt(text1, 0) # charAt(text2, 0)
  THEN 0
  ELSE Min(Len(text1), Len(text2))

diffCommonPrefix(text1, text2) ==
  IF text1 = <<>> \/ text2 = <<>> \/ charAt(text1, 0) # charAt(text2, 0)
  THEN 0
  ELSE diffCommonPrefixLoop(text1, text2, 0, Min(Len(text1), Len(text2)),
                            Min(Len(text1), Len(text2)), 0)

RECURSIVE diffCommonSuffixLoop(_, _, _, _, _, _)
diffCommonSuffixLoop(text1, text2, pointermin, pointermax, pointermid, pointerend) ==
  IF pointermin < pointermid
  THEN IF substring(text1, Len(text1) - pointermid, Len(text1) - pointerend)
            = substring(text2, Len(text2) - pointermid, Len(text2) - pointerend)
       THEN diffCommonSuffixLoop(text1, text2, pointermid, pointermax,
              ((pointermax - pointermid) \div 2) + pointermid, pointermid)
       ELSE diffCommonSuffixLoop(text1, text2, pointermin, pointermid,
              ((pointermid - pointermin) \div 2) + pointermin, pointerend)
  ELSE pointermid

diffCommonSuffix(text1, text2) ==
  IF text1 = <<>> \/ text2 = <<>>
     \/ charAt(text1, Len(text1) - 1) # charAt(text2, Len(text2) - 1)
  THEN 0
  ELSE diffCommonSuffixLoop(text1, text2, 0, Min(Len(text1), Len(text2)),
                            Min(Len(text1), Len(text2)), 0)

(***************************************************************************)
(* diffCleanupMerge.                                                       *)
(***************************************************************************)
\* The DIFF_EQUAL case of the first sweep when both a deletion and an
\* insertion are pending: factor out the common prefix and suffix.
mergeFactor(st) ==
  LET prefixed(commonlength, before) ==
        IF commonlength # 0
        THEN IF before > 0 /\ At(st.diffs, before - 1).op = DIFF_EQUAL
             THEN [st EXCEPT
                     !.diffs = SetText(st.diffs, before - 1,
                                 At(st.diffs, before - 1).text
                                   \o substring(st.textInsert, 0, commonlength)),
                     !.textInsert = substringFrom(st.textInsert, commonlength),
                     !.textDelete = substringFrom(st.textDelete, commonlength)]
             ELSE [st EXCEPT
                     !.diffs = splice(st.diffs, 0, 0,
                                 <<Diff(DIFF_EQUAL,
                                        substring(st.textInsert, 0, commonlength))>>),
                     !.pointer = st.pointer + 1,
                     !.textInsert = substringFrom(st.textInsert, commonlength),
                     !.textDelete = substringFrom(st.textDelete, commonlength)]
        ELSE st
      suffixed(s1, commonlength) ==
        IF commonlength # 0
        THEN [s1 EXCEPT
                !.diffs = SetText(s1.diffs, s1.pointer,
                            substringFrom(s1.textInsert,
                                          Len(s1.textInsert) - commonlength)
                              \o At(s1.diffs, s1.pointer).text),
                !.textInsert = substring(s1.textInsert, 0,
                                         Len(s1.textInsert) - commonlength),
                !.textDelete = substring(s1.textDelete, 0,
                                         Len(s1.textDelete) - commonlength)]
        ELSE s1
      factorSuffix(s1) ==
        suffixed(s1, diffCommonSuffix(s1.textInsert, s1.textDelete))
  IN factorSuffix(prefixed(diffCommonPrefix(st.textInsert, st.textDelete),
                           st.pointer - st.countDelete - st.countInsert))

\* The DIFF_EQUAL case of the first sweep.
mergeEqual(st) ==
  LET withInsert(s1, d1, p1) ==
        IF Len(s1.textInsert) # 0
        THEN [s1 EXCEPT
                !.diffs = splice(d1, p1, 0, <<Diff(DIFF_INSERT, s1.textInsert)>>),
                !.pointer = p1 + 2]
        ELSE [s1 EXCEPT !.diffs = d1, !.pointer = p1 + 1]
      withDelete(s1, d0, p0) ==
        IF Len(s1.textDelete) # 0
        THEN withInsert(s1,
               splice(d0, p0, 0, <<Diff(DIFF_DELETE, s1.textDelete)>>), p0 + 1)
        ELSE withInsert(s1, d0, p0)
      replaceAt(s1, p0) ==
        withDelete(s1,
          splice(s1.diffs, p0, s1.countDelete + s1.countInsert, <<>>), p0)
      replace(s1) ==
        replaceAt(s1, s1.pointer - (s1.countDelete + s1.countInsert))
      reset(s0) ==
        [s0 EXCEPT !.countInsert = 0, !.countDelete = 0,
                   !.textDelete = <<>>, !.textInsert = <<>>]
  IN reset(IF st.countDelete + st.countInsert > 1
           THEN replace(IF st.countDelete # 0 /\ st.countInsert # 0
                        THEN mergeFactor(st) ELSE st)
           ELSE IF st.pointer # 0 /\ At(st.diffs, st.pointer - 1).op = DIFF_EQUAL
           THEN [st EXCEPT
                   !.diffs = splice(SetText(st.diffs, st.pointer - 1,
                                      At(st.diffs, st.pointer - 1).text
                                        \o At(st.diffs, st.pointer).text),
                                    st.pointer, 1, <<>>)]
           ELSE [st EXCEPT !.pointer = st.pointer + 1])

RECURSIVE mergeSweep1(_)
\* The first sweep: while (pointer < diffs.length) switch (diffs[pointer][0]).
mergeSweep1(st) ==
  IF st.pointer < Len(st.diffs)
  THEN LET d == At(st.diffs, st.pointer)
       IN IF d.op = DIFF_INSERT
          THEN mergeSweep1([st EXCEPT !.countInsert = st.countInsert + 1,
                                      !.textInsert = st.textInsert \o d.text,
                                      !.pointer = st.pointer + 1])
          ELSE IF d.op = DIFF_DELETE
          THEN mergeSweep1([st EXCEPT !.countDelete = st.countDelete + 1,
                                      !.textDelete = st.textDelete \o d.text,
                                      !.pointer = st.pointer + 1])
          ELSE mergeSweep1(mergeEqual(st))
  ELSE st.diffs

RECURSIVE mergeSweep2(_, _, _)
\* The second sweep: shift a single edit surrounded by equalities.
\* Returns <<diffs, changes>>.
mergeSweep2(diffs, pointer, changes) ==
  IF pointer < Len(diffs) - 1
  THEN IF At(diffs, pointer - 1).op = DIFF_EQUAL
          /\ At(diffs, pointer + 1).op = DIFF_EQUAL
       THEN LET prev == At(diffs, pointer - 1).text
                edit == At(diffs, pointer).text
                next == At(diffs, pointer + 1).text
            IN IF substringFrom(edit, Len(edit) - Len(prev)) = prev
               THEN mergeSweep2(
                      splice(SetText(SetText(diffs, pointer,
                                       prev \o substring(edit, 0,
                                                 Len(edit) - Len(prev))),
                                     pointer + 1, prev \o next),
                             pointer - 1, 1, <<>>),
                      pointer + 1, TRUE)
               ELSE IF substring(edit, 0, Len(next)) = next
               THEN mergeSweep2(
                      splice(SetText(SetText(diffs, pointer - 1, prev \o next),
                                     pointer,
                                     substringFrom(edit, Len(next)) \o next),
                             pointer + 1, 1, <<>>),
                      pointer + 1, TRUE)
               ELSE mergeSweep2(diffs, pointer + 1, changes)
       ELSE mergeSweep2(diffs, pointer + 1, changes)
  ELSE <<diffs, changes>>

\* The first sweep over diffs with the dummy entry at the end, which is
\* removed afterwards if it is still empty.
mergeSwept(diffs) ==
  LET popped(swept) ==
        IF swept[Len(swept)].text = <<>>
        THEN SubSeq(swept, 1, Len(swept) - 1) ELSE swept
  IN popped(mergeSweep1(
       [diffs |-> Append(diffs, Diff(DIFF_EQUAL, <<>>)),
        pointer |-> 0, countDelete |-> 0, countInsert |-> 0,
        textDelete |-> <<>>, textInsert |-> <<>>]))

\* The second sweep never asking for another call.
mergeAgainNever(shifted) == FALSE

\* if (changes): shifted is what the second sweep returns.
mergeAgain(shifted) == shifted[2]

RECURSIVE diffCleanupMerge(_)
diffCleanupMerge(diffs) ==
  LET again(shifted) ==
        IF mergeAgain(shifted) THEN diffCleanupMerge(shifted[1])
        ELSE shifted[1]
  IN again(mergeSweep2(mergeSwept(diffs), 1, FALSE))

RECURSIVE mergePasses(_)
\* What one call of diffCleanupMerge does, followed by what the call it
\* makes of itself does: swept is the script after the first sweep, shifted
\* what the second sweep returns.
mergePassEnd(swept, shifted) ==
  <<[swept |-> swept, shifted |-> shifted[1], changes |-> shifted[2]]>>
    \o (IF mergeAgain(shifted) THEN mergePasses(shifted[1]) ELSE <<>>)

\* The calls of diffCleanupMerge that dmp.diffCleanupMerge(diffs) makes,
\* itself first.
mergePasses(diffs) ==
  mergePassEnd(mergeSwept(diffs), mergeSweep2(mergeSwept(diffs), 1, FALSE))

(***************************************************************************)
(* diffCommonOverlap_.                                                     *)
(***************************************************************************)
RECURSIVE diffCommonOverlapLoop(_, _, _, _, _)
\* while (true): text1 and text2 are the truncated strings.
diffCommonOverlapLoop(text1, text2, textLength, best, length) ==
  LET pattern == substringFrom(text1, textLength - length)
      found == indexOf(text2, pattern, 0)
  IN IF found = -1 THEN best
     ELSE LET l2 == length + found
          IN IF found = 0
                \/ substringFrom(text1, textLength - l2) = substring(text2, 0, l2)
             THEN diffCommonOverlapLoop(text1, text2, textLength, l2, l2 + 1)
             ELSE diffCommonOverlapLoop(text1, text2, textLength, best, l2)

\* The loop stopped at the first overlap it finds.
diffCommonOverlapFirst_(text1, text2) ==
  LET n == Min(Len(text1), Len(text2))
      fits == {k \in 1..n : substringFrom(text1, Len(text1) - k)
                              = substring(text2, 0, k)}
  IN IF fits = {} THEN 0 ELSE SetMin(fits)

diffCommonOverlap_(text1, text2) ==
  LET text1Length == Len(text1)
      text2Length == Len(text2)
  IN IF text1Length = 0 \/ text2Length = 0 THEN 0
     ELSE LET t1 == IF text1Length > text2Length
                    THEN substringFrom(text1, text1Length - text2Length)
                    ELSE text1
              t2 == IF text1Length < text2Length
                    THEN substring(text2, 0, text1Length)
                    ELSE text2
              textLength == Min(text1Length, text2Length)
          IN IF t1 = t2 THEN textLength
             ELSE diffCommonOverlapLoop(t1, t2, textLength, 0, 1)

(***************************************************************************)
(* diffCleanupSemanticLossless.                                            *)
(***************************************************************************)
\* /[^a-zA-Z0-9]/
nonAlphaNumericRegex_(ch) ==
  ~(ch \in 48..57 \/ ch \in 65..90 \/ ch \in 97..122)

\* /\s/
whitespaceRegex_(ch) ==
  ch \in (9..13) \cup {32, 160, 5760, 8232, 8233, 8239, 8287, 12288, 65279}
          \cup (8192..8202)

\* /[\r\n]/
linebreakRegex_(ch) == ch \in {10, 13}

\* /\n\r?\n$/
blanklineEndRegex_(s) ==
  \/ Len(s) >= 2 /\ SubSeq(s, Len(s) - 1, Len(s)) = <<10, 10>>
  \/ Len(s) >= 3 /\ SubSeq(s, Len(s) - 2, Len(s)) = <<10, 13, 10>>

\* /^\r?\n\r?\n/
blanklineStartRegex_(s) ==
  \E pre \in {<<10, 10>>, <<13, 10, 10>>, <<10, 13, 10>>, <<13, 10, 13, 10>>} :
    Len(s) >= Len(pre) /\ SubSeq(s, 1, Len(pre)) = pre

diffCleanupSemanticScore_(one, two) ==
  IF one = <<>> \/ two = <<>> THEN 6
  ELSE LET char1 == one[Len(one)]
           char2 == two[1]
           nonAlphaNumeric1 == nonAlphaNumericRegex_(char1)
           nonAlphaNumeric2 == nonAlphaNumericRegex_(char2)
           whitespace1 == nonAlphaNumeric1 /\ whitespaceRegex_(char1)
           whitespace2 == nonAlphaNumeric2 /\ whitespaceRegex_(char2)
           lineBreak1 == whitespace1 /\ linebreakRegex_(char1)
           lineBreak2 == whitespace2 /\ linebreakRegex_(char2)
           blankLine1 == lineBreak1 /\ blanklineEndRegex_(one)
           blankLine2 == lineBreak2 /\ blanklineStartRegex_(two)
       IN IF blankLine1 \/ blankLine2 THEN 5
          ELSE IF lineBreak1 \/ lineBreak2 THEN 4
          ELSE IF nonAlphaNumeric1 /\ ~whitespace1 /\ whitespace2 THEN 3
          ELSE IF whitespace1 \/ whitespace2 THEN 2
          ELSE IF nonAlphaNumeric1 \/ nonAlphaNumeric2 THEN 1
          ELSE 0

RECURSIVE losslessStep(_)
\* while (edit.charAt(0) === equality2.charAt(0)).  With edit and equality2
\* both empty the condition stays true and nothing changes: the loop never
\* ends, which b.hang records.
losslessStep(b) ==
  IF charAt(b.edit, 0) = charAt(b.equality2, 0)
  THEN IF b.edit = <<>> /\ b.equality2 = <<>>
       THEN [b EXCEPT !.hang = TRUE]
       ELSE LET equality1 == b.equality1 \o charAt(b.edit, 0)
                edit == substringFrom(b.edit, 1) \o charAt(b.equality2, 0)
                equality2 == substringFrom(b.equality2, 1)
                score == diffCleanupSemanticScore_(equality1, edit)
                           + diffCleanupSemanticScore_(edit, equality2)
                b1 == [b EXCEPT !.equality1 = equality1, !.edit = edit,
                                !.equality2 = equality2]
            IN IF score >= b.bestScore
               THEN losslessStep([b1 EXCEPT !.bestScore = score,
                                            !.bestEquality1 = equality1,
                                            !.bestEdit = edit,
                                            !.bestEquality2 = equality2])
               ELSE losslessStep(b1)
  ELSE b

\* The script whose use stands for a call that never returns.
Hang == <<[op |-> 2, text |-> <<>>]>>

\* First, shift the edit as far left as possible: the three strings after it.
losslessShiftLeft(equality1, edit, equality2, commonOffset) ==
  IF commonOffset # 0
  THEN <<substring(equality1, 0, Len(equality1) - commonOffset),
         substringFrom(edit, Len(edit) - commonOffset)
           \o substring(edit, 0, Len(edit) - commonOffset),
         substringFrom(edit, Len(edit) - commonOffset) \o equality2>>
  ELSE <<equality1, edit, equality2>>

\* Second, step character by character right, looking for the best fit.
losslessStepRight(t) ==
  losslessStep(
    [equality1 |-> t[1], edit |-> t[2], equality2 |-> t[3],
     bestEquality1 |-> t[1], bestEdit |-> t[2], bestEquality2 |-> t[3],
     bestScore |-> diffCleanupSemanticScore_(t[1], t[2])
                     + diffCleanupSemanticScore_(t[2], t[3]),
     hang |-> FALSE])

RECURSIVE losslessSweep(_, _)
\* if (diffs[pointer - 1][1] != bestEquality1): the improvement is saved
\* back, and the sweep goes on.
losslessWriteBack(diffs, pointer, b) ==
  IF b.hang THEN Hang
  ELSE IF At(diffs, pointer - 1).text # b.bestEquality1
  THEN IF b.bestEquality1 # <<>>
       THEN IF b.bestEquality2 # <<>>
            THEN losslessSweep(
                   SetText(SetText(SetText(diffs, pointer - 1, b.bestEquality1),
                                   pointer, b.bestEdit),
                           pointer + 1, b.bestEquality2),
                   pointer + 1)
            ELSE losslessSweep(
                   splice(SetText(SetText(diffs, pointer - 1, b.bestEquality1),
                                  pointer, b.bestEdit),
                          pointer + 1, 1, <<>>),
                   pointer)
       ELSE IF b.bestEquality2 # <<>>
            THEN losslessSweep(
                   SetText(SetText(splice(diffs, pointer - 1, 1, <<>>),
                                   pointer - 1, b.bestEdit),
                           pointer, b.bestEquality2),
                   pointer)
            ELSE losslessSweep(
                   splice(SetText(splice(diffs, pointer - 1, 1, <<>>),
                                  pointer - 1, b.bestEdit),
                          pointer, 1, <<>>),
                   pointer - 1)
  ELSE losslessSweep(diffs, pointer + 1)

\* while (pointer < diffs.length - 1)
losslessSweep(diffs, pointer) ==
  IF pointer < Len(diffs) - 1
  THEN IF At(diffs, pointer - 1).op = DIFF_EQUAL
          /\ At(diffs, pointer + 1).op = DIFF_EQUAL
       THEN losslessWriteBack(diffs, pointer,
              losslessStepRight(
                losslessShiftLeft(At(diffs, pointer - 1).text,
                                  At(diffs, pointer).text,
                                  At(diffs, pointer + 1).text,
                                  diffCommonSuffix(At(diffs, pointer - 1).text,
                                                   At(diffs, pointer).text))))
       ELSE losslessSweep(diffs, pointer + 1)
  ELSE diffs

diffCleanupSemanticLossless(diffs) == losslessSweep(diffs, 1)

(***************************************************************************)
(* diffCleanupSemantic.  The stack of equalities is a JavaScript array     *)
(* with a length kept beside it, which the code lets go below zero: the    *)
(* array is a map from the indices written to their values.                *)
(***************************************************************************)
RECURSIVE semanticSweep(_)
\* The first loop: while (pointer < diffs.length).  lastEquality = <<>> is
\* null (null and the empty string are both false in the test on it).
semanticSweep(st) ==
  IF st.pointer < Len(st.diffs)
  THEN LET d == At(st.diffs, st.pointer)
       IN IF d.op = DIFF_EQUAL
          THEN semanticSweep(
                 [st EXCEPT !.equalities = vSet(st.equalities,
                                                st.equalitiesLength, st.pointer),
                            !.equalitiesLength = st.equalitiesLength + 1,
                            !.lengthInsertions1 = st.lengthInsertions2,
                            !.lengthDeletions1 = st.lengthDeletions2,
                            !.lengthInsertions2 = 0,
                            !.lengthDeletions2 = 0,
                            !.lastEquality = d.text,
                            !.pointer = st.pointer + 1])
          ELSE LET s1 == IF d.op = DIFF_INSERT
                         THEN [st EXCEPT !.lengthInsertions2 =
                                            st.lengthInsertions2 + Len(d.text)]
                         ELSE [st EXCEPT !.lengthDeletions2 =
                                            st.lengthDeletions2 + Len(d.text)]
               IN IF s1.lastEquality # <<>>
                     /\ Len(s1.lastEquality)
                          <= Max(s1.lengthInsertions1, s1.lengthDeletions1)
                     /\ Len(s1.lastEquality)
                          <= Max(s1.lengthInsertions2, s1.lengthDeletions2)
                  THEN LET e == vGet(s1.equalities, s1.equalitiesLength - 1)
                           d1 == SetOp(splice(s1.diffs, e, 0,
                                         <<Diff(DIFF_DELETE, s1.lastEquality)>>),
                                       e + 1, DIFF_INSERT)
                           n == s1.equalitiesLength - 2
                       IN semanticSweep(
                            [s1 EXCEPT !.diffs = d1,
                                       !.equalitiesLength = n,
                                       !.pointer = (IF n > 0
                                                    THEN vGet(s1.equalities, n - 1)
                                                    ELSE -1) + 1,
                                       !.lengthInsertions1 = 0,
                                       !.lengthDeletions1 = 0,
                                       !.lengthInsertions2 = 0,
                                       !.lengthDeletions2 = 0,
                                       !.lastEquality = <<>>,
                                       !.changes = TRUE])
                  ELSE semanticSweep([s1 EXCEPT !.pointer = s1.pointer + 1])
  ELSE st

RECURSIVE semanticOverlaps(_, _)
\* A deletion followed by an insertion, with the lengths of their two
\* overlaps: the overlap is extracted when it is as big as half an edit.
semanticOverlap(diffs, pointer, deletion, insertion, overlapLength1, overlapLength2) ==
  IF overlapLength1 >= overlapLength2
  THEN IF 2 * overlapLength1 >= Len(deletion)
          \/ 2 * overlapLength1 >= Len(insertion)
       THEN semanticOverlaps(
              SetText(
                SetText(
                  splice(diffs, pointer, 0,
                    <<Diff(DIFF_EQUAL, substring(insertion, 0, overlapLength1))>>),
                  pointer - 1,
                  substring(deletion, 0, Len(deletion) - overlapLength1)),
                pointer + 1,
                substringFrom(insertion, overlapLength1)),
              pointer + 3)
       ELSE semanticOverlaps(diffs, pointer + 2)
  ELSE IF 2 * overlapLength2 >= Len(deletion)
          \/ 2 * overlapLength2 >= Len(insertion)
       THEN semanticOverlaps(
              [splice(diffs, pointer, 0,
                 <<Diff(DIFF_EQUAL, substring(deletion, 0, overlapLength2))>>)
               EXCEPT ![pointer] =
                        Diff(DIFF_INSERT,
                             substring(insertion, 0,
                                       Len(insertion) - overlapLength2)),
                      ![pointer + 2] =
                        Diff(DIFF_DELETE,
                             substringFrom(deletion, overlapLength2))],
              pointer + 3)
       ELSE semanticOverlaps(diffs, pointer + 2)

\* The second loop: extract the overlaps between a deletion and the
\* insertion that follows it.  A script that is Hang stays so.
semanticOverlaps(diffs, pointer) ==
  IF diffs = Hang THEN Hang
  ELSE IF pointer < Len(diffs)
  THEN IF At(diffs, pointer - 1).op = DIFF_DELETE
          /\ At(diffs, pointer).op = DIFF_INSERT
       THEN semanticOverlap(diffs, pointer,
              At(diffs, pointer - 1).text, At(diffs, pointer).text,
              diffCommonOverlap_(At(diffs, pointer - 1).text,
                                 At(diffs, pointer).text),
              diffCommonOverlap_(At(diffs, pointer).text,
                                 At(diffs, pointer - 1).text))
       ELSE semanticOverlaps(diffs, pointer + 1)
  ELSE diffs

\* if (changes) { this.diffCleanupMerge(diffs) }
cleanupNormalize(st) ==
  IF st.changes THEN diffCleanupMerge(st.diffs) ELSE st.diffs

diffCleanupSemantic(diffs) ==
  semanticOverlaps(
    diffCleanupSemanticLossless(
      cleanupNormalize(
        semanticSweep(
          [diffs |-> diffs, equalities |-> <<>>, equalitiesLength |-> 0,
           lastEquality |-> <<>>, pointer |-> 0,
           lengthInsertions1 |-> 0, lengthDeletions1 |-> 0,
           lengthInsertions2 |-> 0, lengthDeletions2 |-> 0,
           changes |-> FALSE]))),
    1)

(***************************************************************************)
(* diffCleanupEfficiency.                                                  *)
(***************************************************************************)
BoolCount(b) == IF b THEN 1 ELSE 0

RECURSIVE efficiencySweep(_, _)
efficiencySweep(c, st) ==
  IF st.pointer < Len(st.diffs)
  THEN LET d == At(st.diffs, st.pointer)
       IN IF d.op = DIFF_EQUAL
          THEN IF Len(d.text) < c.diffEditCost /\ (st.postIns \/ st.postDel)
               THEN efficiencySweep(c,
                      [st EXCEPT !.equalities = vSet(st.equalities,
                                                     st.equalitiesLength,
                                                     st.pointer),
                                 !.equalitiesLength = st.equalitiesLength + 1,
                                 !.preIns = st.postIns,
                                 !.preDel = st.postDel,
                                 !.lastEquality = d.text,
                                 !.postIns = FALSE, !.postDel = FALSE,
                                 !.pointer = st.pointer + 1])
               ELSE efficiencySweep(c,
                      [st EXCEPT !.equalitiesLength = 0,
                                 !.lastEquality = <<>>,
                                 !.postIns = FALSE, !.postDel = FALSE,
                                 !.pointer = st.pointer + 1])
          ELSE LET s1 == IF d.op = DIFF_DELETE
                         THEN [st EXCEPT !.postDel = TRUE]
                         ELSE [st EXCEPT !.postIns = TRUE]
               IN IF s1.lastEquality # <<>>
                     /\ ((s1.preIns /\ s1.preDel /\ s1.postIns /\ s1.postDel)
                         \/ (2 * Len(s1.lastEquality) < c.diffEditCost
                             /\ BoolCount(s1.preIns) + BoolCount(s1.preDel)
                                  + BoolCount(s1.postIns) + BoolCount(s1.postDel)
                                = 3))
                  THEN LET e == vGet(s1.equalities, s1.equalitiesLength - 1)
                           d1 == SetOp(splice(s1.diffs, e, 0,
                                         <<Diff(DIFF_DELETE, s1.lastEquality)>>),
                                       e + 1, DIFF_INSERT)
                       IN IF s1.preIns /\ s1.preDel
                          THEN efficiencySweep(c,
                                 [s1 EXCEPT !.diffs = d1,
                                            !.lastEquality = <<>>,
                                            !.postIns = TRUE, !.postDel = TRUE,
                                            !.equalitiesLength = 0,
                                            !.changes = TRUE,
                                            !.pointer = s1.pointer + 1])
                          ELSE LET n == s1.equalitiesLength - 2
                               IN efficiencySweep(c,
                                    [s1 EXCEPT !.diffs = d1,
                                               !.lastEquality = <<>>,
                                               !.equalitiesLength = n,
                                               !.pointer =
                                                 (IF n > 0
                                                  THEN vGet(s1.equalities, n - 1)
                                                  ELSE -1) + 1,
                                               !.postIns = FALSE,
                                               !.postDel = FALSE,
                                               !.changes = TRUE])
                  ELSE efficiencySweep(c, [s1 EXCEPT !.pointer = s1.pointer + 1])
  ELSE st

diffCleanupEfficiency(c, diffs) ==
  cleanupNormalize(
    efficiencySweep(c,
      [diffs |-> diffs, equalities |-> <<>>, equalitiesLength |-> 0,
       lastEquality |-> <<>>, pointer |-> 0,
       preIns |-> FALSE, preDel |-> FALSE,
       postIns |-> FALSE, postDel |-> FALSE, changes |-> FALSE]))

(***************************************************************************)
(* diffLinesToChars_ and diffCharsToLines_.  lineHash is a plain object    *)
(* ({}): `line in lineHash` is also true of every property the object      *)
(* inherits from Object.prototype, whose values are not numbers.           *)
(***************************************************************************)
ObjectPrototypeKeys ==
  {
    <<99, 111, 110, 115, 116, 114, 117, 99, 116, 111, 114>>,  \* constructor
    <<95, 95, 100, 101, 102, 105, 110, 101, 71, 101, 116, 116, 101, 114, 95, 95>>,  \* __defineGetter__
    <<95, 95, 100, 101, 102, 105, 110, 101, 83, 101, 116, 116, 101, 114, 95, 95>>,  \* __defineSetter__
    <<104, 97, 115, 79, 119, 110, 80, 114, 111, 112, 101, 114, 116, 121>>,  \* hasOwnProperty
    <<95, 95, 108, 111, 111, 107, 117, 112, 71, 101, 116, 116, 101, 114, 95, 95>>,  \* __lookupGetter__
    <<95, 95, 108, 111, 111, 107, 117, 112, 83, 101, 116, 116, 101, 114, 95, 95>>,  \* __lookupSetter__
    <<105, 115, 80, 114, 111, 116, 111, 116, 121, 112, 101, 79, 102>>,  \* isPrototypeOf
    <<112, 114, 111, 112, 101, 114, 116, 121, 73, 115, 69, 110, 117, 109, 101, 114, 97, 98, 108, 101>>,  \* propertyIsEnumerable
    <<116, 111, 83, 116, 114, 105, 110, 103>>,  \* toString
    <<118, 97, 108, 117, 101, 79, 102>>,  \* valueOf
    <<95, 95, 112, 114, 111, 116, 111, 95, 95>>,  \* __proto__
    <<116, 111, 76, 111, 99, 97, 108, 101, 83, 116, 114, 105, 110, 103>>  \* toLocaleString
  }

\* "__proto__"
ProtoKey == <<95, 95, 112, 114, 111, 116, 111, 95, 95>>

\* String.fromCharCode(n): ToUint16, NaN giving 0.
fromCharCode(n) == IF n = NaN THEN <<0>> ELSE <<n % 65536>>

\* line in lineHash && lineHash[line] !== undefined
lineHashHas(lineHash, line) ==
  line \in DOMAIN lineHash \/ line \in ObjectPrototypeKeys

\* lineHash[line], NaN for an inherited property (a function or an object).
lineHashGet(lineHash, line) ==
  IF line \in DOMAIN lineHash THEN lineHash[line] ELSE NaN

\* lineHash[line] = n: the __proto__ setter ignores a number.
lineHashSet(lineHash, line, n) ==
  IF line = ProtoKey THEN lineHash ELSE vSet(lineHash, line, n)

LinesCap1 == 40000

LinesCap2 == 65535

RECURSIVE diffLinesToCharsMunge_(_, _, _)
\* while (lineEnd < text.length - 1): m holds chars, lineStart, lineEnd,
\* lineArray, lineArrayLength and lineHash.
diffLinesToCharsMunge_(text, maxLines, m) ==
  IF m.lineEnd < Len(text) - 1
  THEN LET nl == indexOf(text, <<10>>, m.lineStart)
           lineEnd == IF nl = -1 THEN Len(text) - 1 ELSE nl
           line == substring(text, m.lineStart, lineEnd + 1)
       IN IF lineHashHas(m.lineHash, line)
          THEN diffLinesToCharsMunge_(text, maxLines,
                 [m EXCEPT !.chars = m.chars
                                       \o fromCharCode(lineHashGet(m.lineHash, line)),
                           !.lineEnd = lineEnd,
                           !.lineStart = lineEnd + 1])
          ELSE LET bail == m.lineArrayLength = maxLines
                   line2 == IF bail THEN substringFrom(text, m.lineStart) ELSE line
                   lineEnd2 == IF bail THEN Len(text) ELSE lineEnd
               IN diffLinesToCharsMunge_(text, maxLines,
                    [m EXCEPT !.chars = m.chars \o fromCharCode(m.lineArrayLength),
                              !.lineHash = lineHashSet(m.lineHash, line2,
                                                       m.lineArrayLength),
                              !.lineArray = vSet(m.lineArray, m.lineArrayLength,
                                                 line2),
                              !.lineArrayLength = m.lineArrayLength + 1,
                              !.lineEnd = lineEnd2,
                              !.lineStart = lineEnd2 + 1])
  ELSE m

\* return {chars1, chars2, lineArray}
linesToCharsResult(m1, m2) ==
  [chars1 |-> m1.chars, chars2 |-> m2.chars, lineArray |-> m2.lineArray]

\* const chars2 = diffLinesToCharsMunge_(text2), with what text1 left in
\* lineArray and lineHash.
linesToCharsSecond(text2, m1) ==
  linesToCharsResult(m1,
    diffLinesToCharsMunge_(text2, LinesCap2,
      [m1 EXCEPT !.chars = <<>>, !.lineStart = 0, !.lineEnd = -1]))

\* lineArray is a map from index to line; lineArray[0] is the blank entry.
diffLinesToChars_(text1, text2) ==
  linesToCharsSecond(text2,
    diffLinesToCharsMunge_(text1, LinesCap1,
      [chars |-> <<>>, lineStart |-> 0, lineEnd |-> -1,
       lineArray |-> (0 :> <<>>), lineArrayLength |-> 1,
       lineHash |-> <<>>]))

RECURSIVE charsToLine(_, _)
\* text[j] = lineArray[chars.charCodeAt(j)], joined: an index the array
\* does not hold joins as the empty string.
charsToLine(chars, lineArray) ==
  IF chars = <<>> THEN <<>>
  ELSE (IF Head(chars) \in DOMAIN lineArray THEN lineArray[Head(chars)] ELSE <<>>)
         \o charsToLine(Tail(chars), lineArray)

diffCharsToLines_(diffs, lineArray) ==
  [i \in 1..Len(diffs) |-> Diff(diffs[i].op, charsToLine(diffs[i].text, lineArray))]

(***************************************************************************)
(* diffHalfMatch_.  The result is <<>> for null, else the five strings.    *)
(***************************************************************************)
RECURSIVE diffHalfMatchILoop(_, _, _, _, _, _)
\* The body of the loop for the seed found at j:
\* if (bestCommon.length < suffixLength + prefixLength) the match at j is
\* the best so far.
halfMatchAt(longtext, shorttext, i, seed, j, prefixLength, suffixLength, best) ==
  IF Len(best[5]) < suffixLength + prefixLength
  THEN diffHalfMatchILoop(longtext, shorttext, i, seed,
         indexOf(shorttext, seed, j + 1),
         << substring(longtext, 0, i - suffixLength),
            substringFrom(longtext, i + prefixLength),
            substring(shorttext, 0, j - suffixLength),
            substringFrom(shorttext, j + prefixLength),
            substring(shorttext, j - suffixLength, j)
              \o substring(shorttext, j, j + prefixLength) >>)
  ELSE diffHalfMatchILoop(longtext, shorttext, i, seed,
         indexOf(shorttext, seed, j + 1), best)

\* while ((j = shorttext.indexOf(seed, j + 1)) != -1): j is the index just
\* found, best the five element array built so far (best[5] is bestCommon).
diffHalfMatchILoop(longtext, shorttext, i, seed, j, best) ==
  IF j # -1
  THEN halfMatchAt(longtext, shorttext, i, seed, j,
         diffCommonPrefix(substringFrom(longtext, i),
                          substringFrom(shorttext, j)),
         diffCommonSuffix(substring(longtext, 0, i),
                          substring(shorttext, 0, j)),
         best)
  ELSE best

\* if (bestCommon.length * 2 >= longtext.length)
halfMatchLongEnough(longtext, best) ==
  IF Len(best[5]) * 2 >= Len(longtext) THEN best ELSE <<>>

diffHalfMatchI_(longtext, shorttext, i) ==
  halfMatchLongEnough(longtext,
    diffHalfMatchILoop(longtext, shorttext, i,
      substring(longtext, i, i + (Len(longtext) \div 4)),
      indexOf(shorttext, substring(longtext, i, i + (Len(longtext) \div 4)), 0),
      << <<>>, <<>>, <<>>, <<>>, <<>> >>))

\* The better half match as found, in the order of the longer and the
\* shorter text.
halfMatchChooseAsFound(text1, text2, hm1, hm2) ==
  IF hm1 = <<>> /\ hm2 = <<>> THEN <<>>
  ELSE IF hm2 = <<>> THEN hm1
  ELSE IF hm1 = <<>> THEN hm2
  ELSE IF Len(hm1[5]) > Len(hm2[5]) THEN hm1 ELSE hm2

\* The better of the two half matches, in the order of text1 and text2.
halfMatchChoose(text1, text2, hm1, hm2) ==
  LET hm == IF hm2 = <<>> THEN hm1
            ELSE IF hm1 = <<>> THEN hm2
            ELSE IF Len(hm1[5]) > Len(hm2[5]) THEN hm1 ELSE hm2
  IN IF hm1 = <<>> /\ hm2 = <<>> THEN <<>>
     ELSE IF Len(text1) > Len(text2)
     THEN <<hm[1], hm[2], hm[3], hm[4], hm[5]>>
     ELSE <<hm[3], hm[4], hm[1], hm[2], hm[5]>>

diffHalfMatch_(c, text1, text2) ==
  LET longtext == IF Len(text1) > Len(text2) THEN text1 ELSE text2
      shorttext == IF Len(text1) > Len(text2) THEN text2 ELSE text1
  IN IF c.diffTimeout <= 0 THEN <<>>
     ELSE IF Len(longtext) < 4 \/ Len(shorttext) * 2 < Len(longtext)
     THEN <<>>
     ELSE halfMatchChoose(text1, text2,
            diffHalfMatchI_(longtext, shorttext, (Len(longtext) + 3) \div 4),
            diffHalfMatchI_(longtext, shorttext, (Len(longtext) + 1) \div 2))

(***************************************************************************)
(* The clock.  A deadline is the number of reads of the clock that still   *)
(* find the time not past it; Never is Number.MAX_VALUE, which no time     *)
(* exceeds.  Time does not go back: once a read finds the deadline passed, *)
(* every later read does.                                                  *)
(***************************************************************************)
Never == -1

\* new Date().getTime() > deadline
clockPast(deadline) == deadline = 0

\* A clock that stands still.
clockStopped(deadline) == deadline

\* The deadline as the next read of the clock will find it.
clockRead(deadline) == IF deadline > 0 THEN deadline - 1 ELSE deadline

(***************************************************************************)
(* diffBisect_.  The frontier vectors v1 and v2 are JavaScript arrays.     *)
(***************************************************************************)
\* while (x1 < text1Length && y1 < text2Length &&
\*        text1.charAt(x1) == text2.charAt(y1)) { x1++; y1++ }
\* x1 advances by the first j at which the condition of the loop fails.
bisectSnake1(text1, text2, x1, y1) ==
  IF x1 = NaN \/ y1 = NaN THEN x1
  ELSE x1 + SetMin({j \in 0..Max(0, Len(text1) - x1) :
                      ~(/\ x1 + j < Len(text1)
                        /\ y1 + j < Len(text2)
                        /\ charAt(text1, x1 + j) = charAt(text2, y1 + j))})

\* while (x2 < text1Length && y2 < text2Length &&
\*        text1.charAt(text1Length - x2 - 1) ==
\*        text2.charAt(text2Length - y2 - 1)) { x2++; y2++ }
bisectSnake2(text1, text2, x2, y2) ==
  IF x2 = NaN \/ y2 = NaN THEN x2
  ELSE x2 + SetMin({j \in 0..Max(0, Len(text1) - x2) :
                      ~(/\ x2 + j < Len(text1)
                        /\ y2 + j < Len(text2)
                        /\ charAt(text1, Len(text1) - (x2 + j) - 1)
                             = charAt(text2, Len(text2) - (y2 + j) - 1))})

\* The constants of one diffBisect_ call.
bisectFrame(text1, text2) ==
  LET maxD == (Len(text1) + Len(text2) + 1) \div 2
  IN [text1Length |-> Len(text1), text2Length |-> Len(text2),
      maxD |-> maxD, vOffset |-> maxD, vLength |-> 2 * maxD,
      delta |-> Len(text1) - Len(text2),
      front |-> (Len(text1) - Len(text2)) % 2 # 0]

\* The indices of v1 (of v2) that one pass of the loop on k1 (on k2) reads
\* to choose x1 (x2) and writes it at: with
\* (k == -d || (k != d && v[kOffset - 1] < v[kOffset + 1])) the comparison
\* is made only when k is neither -d nor d.
bisectWalkUsed(d, k, kOffset) ==
  {kOffset}
    \cup (IF k = -d THEN {kOffset + 1}
          ELSE IF k # d THEN {kOffset - 1, kOffset + 1}
          ELSE {kOffset - 1})

RECURSIVE bisectFrontWalk(_, _, _, _, _, _)
\* for (let k1 = -d + k1start; k1 <= d - k1end; k1 += 2): st.hit becomes
\* <<x1, y1>> when an overlap is detected.
bisectFrontWalk(text1, text2, f, st, d, k1) ==
  IF k1 <= d - st.k1end
  THEN LET k1Offset == f.vOffset + k1
           x0 == IF k1 = -d
                    \/ (k1 # d /\ jsLt(vGet(st.v1, k1Offset - 1),
                                      vGet(st.v1, k1Offset + 1)))
                 THEN vGet(st.v1, k1Offset + 1)
                 ELSE jsAdd(vGet(st.v1, k1Offset - 1), 1)
           x1 == bisectSnake1(text1, text2, x0, jsAdd(x0, 0 - k1))
           y1 == jsAdd(x1, 0 - k1)
           s1 == [st EXCEPT !.v1 = vSet(st.v1, k1Offset, x1),
                            !.used = @ \cup bisectWalkUsed(d, k1, k1Offset)]
       IN IF jsGt(x1, f.text1Length)
          THEN bisectFrontWalk(text1, text2, f,
                               [s1 EXCEPT !.k1end = s1.k1end + 2], d, k1 + 2)
          ELSE IF jsGt(y1, f.text2Length)
          THEN bisectFrontWalk(text1, text2, f,
                               [s1 EXCEPT !.k1start = s1.k1start + 2], d, k1 + 2)
          ELSE IF f.front
          THEN LET k2Offset == f.vOffset + f.delta - k1
                   s2 == [s1 EXCEPT !.used = @ \cup {k2Offset}]
               IN IF k2Offset >= 0 /\ k2Offset < f.vLength
                  THEN IF vGet(s2.v2, k2Offset) # -1
                          /\ jsGe(x1, jsAdd(f.text1Length,
                                            0 - vGet(s2.v2, k2Offset)))
                       THEN [s2 EXCEPT !.hit = <<x1, y1>>]
                       ELSE bisectFrontWalk(text1, text2, f, s2, d, k1 + 2)
                  ELSE bisectFrontWalk(text1, text2, f, s1, d, k1 + 2)
          ELSE bisectFrontWalk(text1, text2, f, s1, d, k1 + 2)
  ELSE st

RECURSIVE bisectReverseWalk(_, _, _, _, _, _)
\* for (let k2 = -d + k2start; k2 <= d - k2end; k2 += 2)
bisectReverseWalk(text1, text2, f, st, d, k2) ==
  IF k2 <= d - st.k2end
  THEN LET k2Offset == f.vOffset + k2
           x0 == IF k2 = -d
                    \/ (k2 # d /\ jsLt(vGet(st.v2, k2Offset - 1),
                                      vGet(st.v2, k2Offset + 1)))
                 THEN vGet(st.v2, k2Offset + 1)
                 ELSE jsAdd(vGet(st.v2, k2Offset - 1), 1)
           x2 == bisectSnake2(text1, text2, x0, jsAdd(x0, 0 - k2))
           y2 == jsAdd(x2, 0 - k2)
           s1 == [st EXCEPT !.v2 = vSet(st.v2, k2Offset, x2),
                            !.used = @ \cup bisectWalkUsed(d, k2, k2Offset)]
       IN IF jsGt(x2, f.text1Length)
          THEN bisectReverseWalk(text1, text2, f,
                                 [s1 EXCEPT !.k2end = s1.k2end + 2], d, k2 + 2)
          ELSE IF jsGt(y2, f.text2Length)
          THEN bisectReverseWalk(text1, text2, f,
                                 [s1 EXCEPT !.k2start = s1.k2start + 2], d, k2 + 2)
          ELSE IF ~f.front
          THEN LET k1Offset == f.vOffset + f.delta - k2
                   s2 == [s1 EXCEPT !.used = @ \cup {k1Offset}]
               IN IF k1Offset >= 0 /\ k1Offset < f.vLength
                  THEN IF vGet(s2.v1, k1Offset) # -1
                       THEN LET x1 == vGet(s2.v1, k1Offset)
                                y1 == jsAdd(f.vOffset + (0 - k1Offset), x1)
                            IN IF jsGe(x1, jsAdd(f.text1Length, 0 - x2))
                               THEN [s2 EXCEPT !.hit = <<x1, y1>>]
                               ELSE bisectReverseWalk(text1, text2, f, s2, d,
                                                      k2 + 2)
                       ELSE bisectReverseWalk(text1, text2, f, s2, d, k2 + 2)
                  ELSE bisectReverseWalk(text1, text2, f, s1, d, k2 + 2)
          ELSE bisectReverseWalk(text1, text2, f, s1, d, k2 + 2)
  ELSE st

\* The state of diffBisect_ before its first d-level; used is the set of
\* the indices at which v1 or v2 has been read or written since they were
\* filled with -1.
bisectInit(f) ==
  [v1 |-> vSet([x \in 0..(f.vLength - 1) |-> -1], f.vOffset + 1, 0),
   v2 |-> vSet([x \in 0..(f.vLength - 1) |-> -1], f.vOffset + 1, 0),
   used |-> {f.vOffset + 1},
   k1start |-> 0, k1end |-> 0, k2start |-> 0, k2end |-> 0, hit |-> <<>>]

\* The walk of the front path at level d.
bisectFront(text1, text2, f, st, d) ==
  bisectFrontWalk(text1, text2, f, st, d, (0 - d) + st.k1start)

\* The walk of the reverse path at level d, which an overlap found by the
\* front path pre-empts.
bisectReverse(text1, text2, f, sf, d) ==
  IF sf.hit # <<>> THEN sf
  ELSE bisectReverseWalk(text1, text2, f, sf, d, (0 - d) + sf.k2start)

RECURSIVE bisectLevels(_, _, _, _, _, _)
\* The end of level d: an overlap ends the search.
bisectLevelEnd(text1, text2, f, s, d, deadline) ==
  IF s.hit # <<>>
  THEN [hit |-> s.hit, deadline |-> deadline, used |-> s.used]
  ELSE bisectLevels(text1, text2, f, s, d + 1, deadline)

\* for (let d = 0; d < maxD; d++): the result is [hit, deadline], hit = <<>>
\* when the loop ends or breaks without an overlap.
bisectLevels(text1, text2, f, st, d, deadline) ==
  IF d < f.maxD
  THEN IF clockPast(deadline)
       THEN [hit |-> <<>>, deadline |-> deadline, used |-> st.used]
       ELSE bisectLevelEnd(text1, text2, f,
              bisectReverse(text1, text2, f,
                            bisectFront(text1, text2, f, st, d), d),
              d, clockRead(deadline))
  ELSE [hit |-> <<>>, deadline |-> deadline, used |-> st.used]

(***************************************************************************)
(* diffMain, diffCompute_, diffBisect_ and diffBisectSplit_.  Each takes   *)
(* the engine's options c and the deadline, and returns [d, deadline]: the *)
(* script and the deadline as the reads of the clock it made leave it.     *)
(***************************************************************************)
RECURSIVE diffMain(_, _, _, _, _)
RECURSIVE diffCompute_(_, _, _, _, _)
RECURSIVE diffBisect_(_, _, _, _)
RECURSIVE diffBisectSplit_(_, _, _, _, _, _)
RECURSIVE diffLineMode_(_, _, _, _)
RECURSIVE lineModeSweep(_, _, _)

\* The script of a first part followed by the result of a second part.
diffsConcat(diffs, rb) == [d |-> diffs \o rb.d, deadline |-> rb.deadline]

\* const diffsB = this.diffMain(text1B, text2B, checklines, deadline),
\* called with the deadline as the first part left it, and appended to the
\* script of the first part and what stands between the two.
diffMainSecond(c, ra, between, text1B, text2B, checklines) ==
  diffsConcat(ra.d \o between,
              diffMain(c, text1B, text2B, checklines, ra.deadline))

diffBisectSplit_(c, text1, text2, x, y, deadline) ==
  diffMainSecond(c,
    diffMain(c, substring(text1, 0, x), substring(text2, 0, y), FALSE, deadline),
    <<>>, substringFrom(text1, x), substringFrom(text2, y), FALSE)

\* diffBisect_ without its search: the answer it gives when time is up.
diffBisectNoSearch_(c, text1, text2, deadline) ==
  [d |-> <<Diff(DIFF_DELETE, text1), Diff(DIFF_INSERT, text2)>>,
   deadline |-> deadline]

\* The end of diffBisect_: the split at the overlap, or no commonality.
diffBisectEnd(c, text1, text2, r) ==
  IF r.hit # <<>>
  THEN diffBisectSplit_(c, text1, text2, r.hit[1], r.hit[2], r.deadline)
  ELSE [d |-> <<Diff(DIFF_DELETE, text1), Diff(DIFF_INSERT, text2)>>,
        deadline |-> r.deadline]

diffBisect_(c, text1, text2, deadline) ==
  diffBisectEnd(c, text1, text2,
    bisectLevels(text1, text2, bisectFrame(text1, text2),
                 bisectInit(bisectFrame(text1, text2)), 0, deadline))

\* The line-mode threshold of diffCompute_.
LineModeMin == 100

\* diffCompute_ from the half match on.
diffComputeHalves(c, text1, text2, hm, checklines, deadline) ==
  IF hm # <<>>
  THEN diffMainSecond(c,
         diffMain(c, hm[1], hm[3], checklines, deadline),
         <<Diff(DIFF_EQUAL, hm[5])>>, hm[2], hm[4], checklines)
  ELSE IF checklines /\ Len(text1) > LineModeMin /\ Len(text2) > LineModeMin
  THEN diffLineMode_(c, text1, text2, deadline)
  ELSE diffBisect_(c, text1, text2, deadline)

\* diffCompute_ from const i = longtext.indexOf(shorttext) on; op is the
\* operation of the text around shorttext when longtext holds it.
diffComputeInside(c, text1, text2, longtext, shorttext, i, op, checklines, deadline) ==
  IF i # -1
  THEN [d |-> <<Diff(op, substring(longtext, 0, i)),
                Diff(DIFF_EQUAL, shorttext),
                Diff(op, substringFrom(longtext, i + Len(shorttext)))>>,
        deadline |-> deadline]
  ELSE IF Len(shorttext) = 1
  THEN [d |-> <<Diff(DIFF_DELETE, text1), Diff(DIFF_INSERT, text2)>>,
        deadline |-> deadline]
  ELSE diffComputeHalves(c, text1, text2, diffHalfMatch_(c, text1, text2),
                         checklines, deadline)

diffCompute_(c, text1, text2, checklines, deadline) ==
  IF text1 = <<>>
  THEN [d |-> <<Diff(DIFF_INSERT, text2)>>, deadline |-> deadline]
  ELSE IF text2 = <<>>
  THEN [d |-> <<Diff(DIFF_DELETE, text1)>>, deadline |-> deadline]
  ELSE diffComputeInside(c, text1, text2,
         IF Len(text1) > Len(text2) THEN text1 ELSE text2,
         IF Len(text1) > Len(text2) THEN text2 ELSE text1,
         IF Len(text1) > Len(text2)
         THEN indexOf(text1, text2, 0) ELSE indexOf(text2, text1, 0),
         IF Len(text1) > Len(text2) THEN DIFF_DELETE ELSE DIFF_INSERT,
         checklines, deadline)

\* The DIFF_EQUAL case of the sweep with both a deletion and an insertion
\* pending: they are replaced by r, their diff character by character.
lineModeRediff(c, st, pointer, r) ==
  lineModeSweep(c,
    [diffs |-> splice(st.diffs, pointer, st.countDelete + st.countInsert, r.d),
     pointer |-> pointer + Len(r.d) + 1,
     countDelete |-> 0, countInsert |-> 0,
     textDelete |-> <<>>, textInsert |-> <<>>], r.deadline)

\* while (pointer < diffs.length): st holds diffs, pointer, countDelete,
\* countInsert, textDelete and textInsert.
lineModeSweep(c, st, deadline) ==
  IF st.pointer < Len(st.diffs)
  THEN IF At(st.diffs, st.pointer).op = DIFF_INSERT
       THEN lineModeSweep(c,
              [st EXCEPT !.countInsert = st.countInsert + 1,
                         !.textInsert = st.textInsert
                                          \o At(st.diffs, st.pointer).text,
                         !.pointer = st.pointer + 1], deadline)
       ELSE IF At(st.diffs, st.pointer).op = DIFF_DELETE
       THEN lineModeSweep(c,
              [st EXCEPT !.countDelete = st.countDelete + 1,
                         !.textDelete = st.textDelete
                                          \o At(st.diffs, st.pointer).text,
                         !.pointer = st.pointer + 1], deadline)
       ELSE IF st.countDelete >= 1 /\ st.countInsert >= 1
       THEN lineModeRediff(c, st,
              st.pointer - st.countDelete - st.countInsert,
              diffMain(c, st.textDelete, st.textInsert, FALSE, deadline))
       ELSE lineModeSweep(c,
              [st EXCEPT !.countDelete = 0, !.countInsert = 0,
                         !.textDelete = <<>>, !.textInsert = <<>>,
                         !.pointer = st.pointer + 1], deadline)
  ELSE [d |-> SubSeq(st.diffs, 1, Len(st.diffs) - 1), deadline |-> deadline]

\* diffLineMode_ from the diff of the encoded texts on: back to lines, the
\* semantic cleanup, and the sweep.
lineModeDecoded(c, r, lineArray) ==
  lineModeSweep(c,
    [diffs |-> Append(diffCleanupSemantic(diffCharsToLines_(r.d, lineArray)),
                      Diff(DIFF_EQUAL, <<>>)),
     pointer |-> 0, countDelete |-> 0, countInsert |-> 0,
     textDelete |-> <<>>, textInsert |-> <<>>], r.deadline)

\* diffLineMode_ from the encoding a of the lines on.
lineModeEncoded(c, a, deadline) ==
  lineModeDecoded(c, diffMain(c, a.chars1, a.chars2, FALSE, deadline),
                  a.lineArray)

diffLineMode_(c, text1, text2, deadline) ==
  lineModeEncoded(c, diffLinesToChars_(text1, text2), deadline)

\* Restore the prefix and suffix around the script r of the middle block.
diffMainRestore(commonprefix, commonsuffix, r) ==
  [d |-> diffCleanupMerge(
           (IF commonprefix # <<>>
            THEN <<Diff(DIFF_EQUAL, commonprefix)>> ELSE <<>>)
           \o r.d
           \o (IF commonsuffix # <<>>
               THEN <<Diff(DIFF_EQUAL, commonsuffix)>> ELSE <<>>)),
   deadline |-> r.deadline]

\* diffMain from "Trim off common suffix" on: text1 and text2 are without
\* the common prefix, commonlength is the length of their common suffix.
diffMainSuffix(c, commonprefix, text1, text2, commonlength, checklines, deadline) ==
  diffMainRestore(commonprefix,
    substringFrom(text1, Len(text1) - commonlength),
    diffCompute_(c, substring(text1, 0, Len(text1) - commonlength),
                 substring(text2, 0, Len(text2) - commonlength),
                 checklines, deadline))

\* diffMain from "Trim off common prefix" on: commonlength is the length of
\* the common prefix of the texts.
diffMainPrefix(c, text1, text2, commonlength, checklines, deadline) ==
  diffMainSuffix(c, substring(text1, 0, commonlength),
    substringFrom(text1, commonlength), substringFrom(text2, commonlength),
    diffCommonSuffix(substringFrom(text1, commonlength),
                     substringFrom(text2, commonlength)),
    checklines, deadline)

\* diffMain with the deadline given (the recursive calls).
diffMain(c, text1, text2, checklines, deadline) ==
  IF text1 = text2
  THEN [d |-> IF text1 # <<>> THEN <<Diff(DIFF_EQUAL, text1)>> ELSE <<>>,
        deadline |-> deadline]
  ELSE diffMainPrefix(c, text1, text2, diffCommonPrefix(text1, text2),
                      checklines, deadline)

\* diffMain as a caller invokes it, without optDeadline: budget is the
\* number of reads of the clock that find the deadline not yet passed.
diffMainCall(c, text1, text2, checklines, budget) ==
  diffMain(c, text1, text2, checklines,
           IF c.diffTimeout <= 0 THEN Never ELSE budget).d

\* The options of a new engine.
Defaults ==
  [diffTimeout |-> 1, diffEditCost |-> 4,
   matchThreshold |-> [num |-> 1, den |-> 2], matchDistance |-> 1000,
   patchDeleteThreshold |-> [num |-> 1, den |-> 2],
   patchMargin |-> 4, matchMaxBits |-> 32]

(***************************************************************************)
(* SpecDiff: an engine whose diffTimeout the caller sets, and calls of     *)
(* diffMain on every pair of short texts.                                  *)
(***************************************************************************)
\* "a" and "b"
Alphabet == {97, 98}

MaxLen == 5

MaxBudget == 2

Texts(n) == UNION {[1..k -> Alphabet] : k \in 0..n}

NoCall == [text1 |-> <<>>, text2 |-> <<>>, checklines |-> FALSE, budget |-> 0]

InitDiff ==
  /\ pc = "new"
  /\ cfg = Defaults
  /\ in = NoCall
  /\ out = <<>>

\* dmp.diffTimeout = t, before any call.
SetDiffTimeout ==
  /\ pc = "new"
  /\ \E t \in {0, 1} : cfg' = [cfg EXCEPT !.diffTimeout = t]
  /\ UNCHANGED <<pc, in, out>>

\* The caller enters dmp.diffMain(text1, text2, checklines); budget is what
\* the clock will allow, and matters only when a timeout is set.
DiffMainEnter ==
  /\ pc = "new"
  /\ \E text1 \in Texts(MaxLen), text2 \in Texts(MaxLen),
        checklines \in BOOLEAN,
        budget \in IF cfg.diffTimeout > 0 THEN 0..MaxBudget ELSE {0} :
       in' = [text1 |-> text1, text2 |-> text2,
              checklines |-> checklines, budget |-> budget]
  /\ pc' = "diffMain"
  /\ UNCHANGED <<cfg, out>>

\* diffMain returns its script.
DiffMainReturn ==
  /\ pc = "diffMain"
  /\ out' = diffMainCall(cfg, in.text1, in.text2, in.checklines, in.budget)
  /\ pc' = "done"
  /\ UNCHANGED <<cfg, in>>

NextDiff == SetDiffTimeout \/ DiffMainEnter \/ DiffMainReturn

SpecDiff == InitDiff /\ [][NextDiff]_vars

(***************************************************************************)
(* SpecLines: calls of diffMain on texts long enough for the line mode of  *)
(* diffCompute_.  A text is NumLines lines, each a head character, a fill  *)
(* and a line feed, and a last line without line feed.                     *)
(***************************************************************************)
\* "x" and "y"
LineHeads == {120, 121}

FillLen == 33

\* The least number of lines that make a text longer than LineModeMin.
NumLines == (LineModeMin \div (FillLen + 2)) + 1

\* "", "valueOf" and "z"
LastLines == {<<>>, <<118, 97, 108, 117, 101, 79, 102>>, <<122>>}

Line(h) == <<h>> \o [i \in 1..FillLen |-> 97] \o <<10>>

LongTexts ==
  {Concat([i \in 1..NumLines |-> Line(hs[i])]) \o last :
     hs \in [1..NumLines -> LineHeads], last \in LastLines}

DiffMainEnterLines ==
  /\ pc = "new"
  /\ \E text1 \in LongTexts, text2 \in LongTexts,
        checklines \in BOOLEAN,
        budget \in IF cfg.diffTimeout > 0 THEN 0..MaxBudget ELSE {0} :
       in' = [text1 |-> text1, text2 |-> text2,
              checklines |-> checklines, budget |-> budget]
  /\ pc' = "diffMain"
  /\ UNCHANGED <<cfg, out>>

NextLines == SetDiffTimeout \/ DiffMainEnterLines \/ DiffMainReturn

SpecLines == InitDiff /\ [][NextLines]_vars

(***************************************************************************)
(* Properties of diffMain.                                                 *)
(***************************************************************************)
\* The script d rebuilds both texts.
Rebuilds(d, text1, text2) == diffText1(d) = text1 /\ diffText2(d) = text2

\* The length of the longest common subsequence of a and b.
RECURSIVE LCS(_, _)
LCS(a, b) ==
  IF a = <<>> \/ b = <<>> THEN 0
  ELSE IF Head(a) = Head(b) THEN 1 + LCS(Tail(a), Tail(b))
  ELSE Max(LCS(Tail(a), b), LCS(a, Tail(b)))

\* The total length of the DELETE and INSERT texts of d.
RECURSIVE EditLength(_)
EditLength(d) ==
  IF d = <<>> THEN 0
  ELSE (IF Head(d).op = DIFF_EQUAL THEN 0 ELSE Len(Head(d).text))
         + EditLength(Tail(d))

\* d is in cleaned form.
IsCleaned(d) ==
  /\ \A i \in 1..Len(d) : d[i].text # <<>>
  /\ \A i \in 1..(Len(d) - 1) : d[i].op # d[i + 1].op
  /\ \A i \in 1..(Len(d) - 1) :
       d[i].op = DIFF_DELETE /\ d[i + 1].op = DIFF_INSERT
         => /\ d[i].text[1] # d[i + 1].text[1]
            /\ d[i].text[Len(d[i].text)] # d[i + 1].text[Len(d[i + 1].text)]

\* C1: for every pair of texts, each value of checklines and each
\* diffTimeout, the script diffMain returns rebuilds both texts: diffText1
\* of it is text1 and diffText2 of it is text2 (so the texts rebuilt with
\* checklines true are those rebuilt with checklines false).
C1_DiffRoundTrip == pc = "done" => Rebuilds(out, in.text1, in.text2)

\* C2: with a timeout set, whatever the number of reads of the clock the
\* deadline lets pass (none, some, or more than the call makes), the script
\* diffMain returns rebuilds both texts.
C2_TimeoutRoundTrip ==
  pc = "done" /\ cfg.diffTimeout > 0 /\ in.budget \in 0..MaxBudget
    => Rebuilds(out, in.text1, in.text2)

\* C3: with diffTimeout = 0 and checklines false, the script of diffMain is
\* minimal: its DELETE and INSERT texts total |text1| + |text2| - 2 * LCS.
C3_Minimal ==
  pc = "done" /\ cfg.diffTimeout = 0 /\ ~in.checklines
    => EditLength(out) = Len(in.text1) + Len(in.text2)
                           - 2 * LCS(in.text1, in.text2)

\* A minimal script that the bisection found: edits of both kinds around an
\* equality, which no shortcut of diffCompute_ produces without a timeout.
C3_Witness ==
  /\ pc = "done" /\ cfg.diffTimeout = 0 /\ ~in.checklines
  /\ \E i, j, k \in 1..Len(out) :
       /\ i < j /\ j < k
       /\ out[i].op = DIFF_DELETE /\ out[j].op = DIFF_EQUAL
       /\ out[k].op = DIFF_INSERT
  /\ EditLength(out) < Len(in.text1) + Len(in.text2)

\* C4: the script diffMain returns is in cleaned form: no empty text, no
\* two consecutive ops of the same kind, and no DELETE followed by an INSERT
\* with a common first or last character.
C4_Cleaned == pc = "done" => IsCleaned(out)

(***************************************************************************)
(* SpecMerge: calls of diffCleanupMerge on every short script, empty texts *)
(* included.                                                               *)
(***************************************************************************)
MaxOps == 3

MaxTextLen == 2

Ops == {DIFF_DELETE, DIFF_INSERT, DIFF_EQUAL}

Scripts(texts, n) ==
  UNION {[1..k -> [op : Ops, text : texts]] : k \in 0..n}

\* The caller enters dmp.diffCleanupMerge(diffs).
CleanupMergeEnter ==
  /\ pc = "new"
  /\ \E diffs \in Scripts(Texts(MaxTextLen), MaxOps) : in' = [diffs |-> diffs]
  /\ pc' = "diffCleanupMerge"
  /\ UNCHANGED <<cfg, out>>

\* diffCleanupMerge leaves diffs rewritten.
CleanupMergeReturn ==
  /\ pc = "diffCleanupMerge"
  /\ out' = diffCleanupMerge(in.diffs)
  /\ pc' = "done"
  /\ UNCHANGED <<cfg, in>>

NextMerge == CleanupMergeEnter \/ CleanupMergeReturn

SpecMerge == InitDiff /\ [][NextMerge]_vars

\* C5: diffCleanupMerge is idempotent: on the script a first application
\* left, a second application changes nothing.
C5_MergeIdempotent == pc = "done" => diffCleanupMerge(out) = out

(***************************************************************************)
(* Calls that may throw return the value, or the error thrown.             *)
(***************************************************************************)
Return(v) == [error |-> "", value |-> v]

Throw(e) == [error |-> e, value |-> <<>>]

\* The value of rest after s, or the error of rest.
Prepend(s, rest) ==
  IF rest.error # "" THEN rest ELSE Return(s \o rest.value)

(***************************************************************************)
(* Numbers and strings: string concatenation of a number, parseInt(s, 10), *)
(* split, join.                                                            *)
(***************************************************************************)
RECURSIVE numberToString(_)
numberToString(n) ==
  IF n < 0 THEN <<45>> \o numberToString(-n)
  ELSE IF n < 10 THEN <<48 + n>>
  ELSE numberToString(n \div 10) \o <<48 + (n % 10)>>

WhiteSpace ==
  {9, 10, 11, 12, 13, 32, 160, 5760, 8232, 8233, 8239, 8287, 12288, 65279}
    \cup (8192..8202)

RECURSIVE digitsValue(_)
digitsValue(ds) ==
  IF ds = <<>> THEN 0
  ELSE 10 * digitsValue(SubSeq(ds, 1, Len(ds) - 1)) + (ds[Len(ds)] - 48)

\* parseInt(s, 10): white space, a sign, and the digits that follow; NaN
\* without a digit there.
parseInt(s) ==
  LET first == SetMin({j \in 1..Len(s) : s[j] \notin WhiteSpace}
                        \cup {Len(s) + 1})
      signed == first <= Len(s) /\ s[first] \in {43, 45}
      from == IF signed THEN first + 1 ELSE first
      to == SetMin({j \in from..Len(s) : s[j] \notin 48..57}
                     \cup {Len(s) + 1})
  IN IF to = from THEN NaN
     ELSE IF signed /\ s[first] = 45 THEN -digitsValue(SubSeq(s, from, to - 1))
     ELSE digitsValue(SubSeq(s, from, to - 1))

\* String.prototype.split(sep), sep one character.
split(s, sep) ==
  LET at == {i \in 1..Len(s) : s[i] = sep}
      cut(k) == IF k = 0 THEN 0
                ELSE IF k > Cardinality(at) THEN Len(s) + 1
                ELSE CHOOSE i \in at : Cardinality({j \in at : j < i}) = k - 1
  IN [k \in 1..(Cardinality(at) + 1) |-> SubSeq(s, cut(k - 1) + 1, cut(k) - 1)]

\* Array.prototype.join(sep).
join(ss, sep) ==
  Concat([i \in 1..Len(ss) |-> IF i = 1 THEN ss[i] ELSE sep \o ss[i]])

(***************************************************************************)
(* encodeURI and decodeURI (ECMAScript Encode and Decode): the code units  *)
(* outside the unescaped set are written as the %XX of their UTF-8 octets. *)
(***************************************************************************)
\* ; / ? : @ & = + $ ,
uriReserved == {59, 47, 63, 58, 64, 38, 61, 43, 36, 44}

\* letters, digits and - _ . ! ~ * ' ( )
uriUnescaped ==
  (65..90) \cup (97..122) \cup (48..57)
    \cup {45, 95, 46, 33, 126, 42, 39, 40, 41}

\* #
uriHash == {35}

HighSurrogates == 55296..56319

LowSurrogates == 56320..57343

hexDigit(v) == IF v < 10 THEN 48 + v ELSE 55 + v

hexValue(c) ==
  IF c \in 48..57 THEN c - 48
  ELSE IF c \in 65..70 THEN c - 55
  ELSE IF c \in 97..102 THEN c - 87
  ELSE -1

utf8(V) ==
  IF V < 128 THEN <<V>>
  ELSE IF V < 2048 THEN <<192 + (V \div 64), 128 + (V % 64)>>
  ELSE IF V < 65536
    THEN <<224 + (V \div 4096), 128 + ((V \div 64) % 64), 128 + (V % 64)>>
  ELSE <<240 + (V \div 262144), 128 + ((V \div 4096) % 64),
         128 + ((V \div 64) % 64), 128 + (V % 64)>>

utf16(V) ==
  IF V < 65536 THEN <<V>>
  ELSE <<55296 + ((V - 65536) \div 1024), 56320 + ((V - 65536) % 1024)>>

escapeOctets(octets) ==
  Concat([i \in 1..Len(octets) |->
            <<37, hexDigit(octets[i] \div 16), hexDigit(octets[i] % 16)>>])

RECURSIVE encodeURIFrom(_, _)
encodeURIFrom(str, k) ==
  IF k >= Len(str) THEN Return(<<>>)
  ELSE IF str[k + 1] \in uriReserved \cup uriUnescaped \cup uriHash
    THEN Prepend(<<str[k + 1]>>, encodeURIFrom(str, k + 1))
  ELSE IF str[k + 1] \in LowSurrogates THEN Throw("URIError")
  ELSE IF str[k + 1] \notin HighSurrogates
    THEN Prepend(escapeOctets(utf8(str[k + 1])), encodeURIFrom(str, k + 1))
  ELSE IF k + 1 >= Len(str) THEN Throw("URIError")
  ELSE IF str[k + 2] \notin LowSurrogates THEN Throw("URIError")
  ELSE Prepend(escapeOctets(utf8((str[k + 1] - 55296) * 1024
                                   + (str[k + 2] - 56320) + 65536)),
               encodeURIFrom(str, k + 2))

encodeURI(str) == encodeURIFrom(str, 0)

\* The octet written %XX at k, or -1 where no such escape stands.
octetAt(str, k) ==
  IF k + 2 >= Len(str) THEN -1
  ELSE IF str[k + 1] # 37 THEN -1
  ELSE IF hexValue(str[k + 2]) = -1 \/ hexValue(str[k + 3]) = -1 THEN -1
  ELSE 16 * hexValue(str[k + 2]) + hexValue(str[k + 3])

\* The number of octets of the UTF-8 sequence that B leads, 0 if none.
octetCount(B) ==
  IF B < 128 THEN 1
  ELSE IF B < 192 THEN 0
  ELSE IF B < 224 THEN 2
  ELSE IF B < 240 THEN 3
  ELSE IF B < 248 THEN 4
  ELSE 0

codePoint(B, n, c) ==
  IF n = 2 THEN (B - 192) * 64 + (c[1] - 128)
  ELSE IF n = 3 THEN (B - 224) * 4096 + (c[1] - 128) * 64 + (c[2] - 128)
  ELSE (B - 240) * 262144 + (c[1] - 128) * 4096 + (c[2] - 128) * 64
         + (c[3] - 128)

validCodePoint(V, n) ==
  IF n = 2 THEN V >= 128
  ELSE IF n = 3 THEN V >= 2048 /\ V \notin 55296..57343
  ELSE V \in 65536..1114111

RECURSIVE decodeURIFrom(_, _)
decodeOctets(str, k, B, n, c) ==
  IF \E j \in 1..(n - 1) : c[j] \notin 128..191 THEN Throw("URIError")
  ELSE IF ~validCodePoint(codePoint(B, n, c), n) THEN Throw("URIError")
  ELSE Prepend(utf16(codePoint(B, n, c)), decodeURIFrom(str, k + 3 * n))

decodeEscape(str, k, B) ==
  IF B = -1 THEN Throw("URIError")
  ELSE IF B < 128
    THEN Prepend(IF B \in uriReserved \cup uriHash
                   THEN substring(str, k, k + 3) ELSE <<B>>,
                 decodeURIFrom(str, k + 3))
  ELSE IF octetCount(B) = 0 THEN Throw("URIError")
  ELSE IF k + 3 * (octetCount(B) - 1) >= Len(str) THEN Throw("URIError")
  ELSE decodeOctets(str, k, B, octetCount(B),
                    [j \in 1..(octetCount(B) - 1) |-> octetAt(str, k + 3 * j)])

decodeURIFrom(str, k) ==
  IF k >= Len(str) THEN Return(<<>>)
  ELSE IF str[k + 1] # 37
    THEN Prepend(<<str[k + 1]>>, decodeURIFrom(str, k + 1))
  ELSE decodeEscape(str, k, octetAt(str, k))

decodeURI(str) == decodeURIFrom(str, 0)

\* String.prototype.replace(/%20/g, " ")
replaceEscapedSpaces(s) ==
  LET hit(i) == /\ i >= 1 /\ i + 2 <= Len(s)
                /\ s[i] = 37 /\ s[i + 1] = 50 /\ s[i + 2] = 48
      marked == [i \in 1..Len(s) |->
                   IF hit(i) THEN 32
                   ELSE IF hit(i - 1) \/ hit(i - 2) THEN -1
                   ELSE s[i]]
  IN SelectSeq(marked, LAMBDA c : c # -1)

(***************************************************************************)
(* diffToDelta and diffFromDelta                                           *)
(***************************************************************************)
deltaToken(diff) ==
  IF diff.op = DIFF_INSERT THEN Prepend(<<43>>, encodeURI(diff.text))
  ELSE IF diff.op = DIFF_DELETE
    THEN Return(<<45>> \o numberToString(Len(diff.text)))
  ELSE Return(<<61>> \o numberToString(Len(diff.text)))

deltaJoin(text) ==
  IF \E x \in 1..Len(text) : text[x].error # "" THEN Throw("URIError")
  ELSE Return(replaceEscapedSpaces(
                join([x \in 1..Len(text) |-> text[x].value], <<9>>)))

diffToDelta(diffs) ==
  deltaJoin([x \in 1..Len(diffs) |-> deltaToken(diffs[x])])

RECURSIVE fromDeltaTokens(_, _, _, _)
fromDeltaInsert(text1, tokens, x, pointer, decoded) ==
  IF decoded.error # "" THEN Throw("Illegal escape in diffFromDelta")
  ELSE Prepend(<<Diff(DIFF_INSERT, decoded.value)>>,
               fromDeltaTokens(text1, tokens, x + 1, pointer))

\* fromDeltaCount with a pointer that stops at the end of text1.
fromDeltaCountClamped(text1, tokens, x, pointer, n) ==
  IF n = NaN \/ n < 0 THEN Throw("Invalid number in diffFromDelta")
  ELSE Prepend(<<Diff(IF charAt(tokens[x + 1], 0) = <<61>>
                        THEN DIFF_EQUAL ELSE DIFF_DELETE,
                      substring(text1, pointer, pointer + n))>>,
               fromDeltaTokens(text1, tokens, x + 1,
                               IF pointer + n > Len(text1) THEN Len(text1)
                               ELSE pointer + n))

fromDeltaCount(text1, tokens, x, pointer, n) ==
  IF n = NaN \/ n < 0 THEN Throw("Invalid number in diffFromDelta")
  ELSE Prepend(<<Diff(IF charAt(tokens[x + 1], 0) = <<61>>
                        THEN DIFF_EQUAL ELSE DIFF_DELETE,
                      substring(text1, pointer, pointer + n))>>,
               fromDeltaTokens(text1, tokens, x + 1, pointer + n))

fromDeltaTokens(text1, tokens, x, pointer) ==
  IF x >= Len(tokens)
    THEN IF pointer # Len(text1)
           THEN Throw("Delta length does not equal source text length")
           ELSE Return(<<>>)
  ELSE IF charAt(tokens[x + 1], 0) = <<43>>
    THEN fromDeltaInsert(text1, tokens, x, pointer,
                         decodeURI(substringFrom(tokens[x + 1], 1)))
  ELSE IF charAt(tokens[x + 1], 0) \in {<<45>>, <<61>>}
    THEN fromDeltaCount(text1, tokens, x, pointer,
                        parseInt(substringFrom(tokens[x + 1], 1)))
  ELSE IF tokens[x + 1] # <<>>
    THEN Throw("Invalid diff operation in diffFromDelta")
  ELSE fromDeltaTokens(text1, tokens, x + 1, pointer)

diffFromDelta(text1, delta) == fromDeltaTokens(text1, split(delta, 9), 0, 0)

(***************************************************************************)
(* SpecDelta: diffToDelta on every short script over an alphabet of the    *)
(* characters the delta format gives a meaning, and diffFromDelta on the   *)
(* delta and the text1 of the script.                                      *)
(***************************************************************************)
\* tab, space, "%", "+", "-", "=", "a", e acute, and the two halves of an
\* emoji (U+1F600)
DeltaAlphabet == {9, 32, 37, 43, 45, 61, 97, 233, 55357, 56832}

MaxDeltaOps == 2

MaxDeltaLen == 2

TextsOver(alphabet, n) == UNION {[1..k -> alphabet] : k \in 0..n}

\* The caller enters dmp.diffToDelta(diffs).
DiffToDeltaEnter ==
  /\ pc = "new"
  /\ \E diffs \in Scripts(TextsOver(DeltaAlphabet, MaxDeltaLen), MaxDeltaOps) :
       in' = [diffs |-> diffs]
  /\ pc' = "diffToDelta"
  /\ UNCHANGED <<cfg, out>>

\* diffToDelta returns the delta, or throws.
DiffToDeltaReturn ==
  /\ pc = "diffToDelta"
  /\ out' = [delta |-> diffToDelta(in.diffs), diffs |-> Return(<<>>)]
  /\ pc' = IF diffToDelta(in.diffs).error # "" THEN "thrown" ELSE "delta"
  /\ UNCHANGED <<cfg, in>>

\* The caller passes the delta and the text1 of the script to
\* dmp.diffFromDelta, which returns a script, or throws.
DiffFromDeltaCall ==
  /\ pc = "delta"
  /\ out' = [out EXCEPT
               !.diffs = diffFromDelta(diffText1(in.diffs), out.delta.value)]
  /\ pc' = "done"
  /\ UNCHANGED <<cfg, in>>

NextDelta == DiffToDeltaEnter \/ DiffToDeltaReturn \/ DiffFromDeltaCall

SpecDelta == InitDiff /\ [][NextDelta]_vars

\* C6: for every script d in cleaned form, diffToDelta(d) is a delta, and
\* diffFromDelta(diffText1(d), diffToDelta(d)) is d, op by op.
C6_DeltaRoundTrip ==
  pc \in {"thrown", "done"} /\ IsCleaned(in.diffs)
    => pc = "done" /\ out.diffs = Return(in.diffs)

(***************************************************************************)
(* patchObj, its toString, patchToText and patchFromText                   *)
(***************************************************************************)
\* The null of a start never assigned.
Null == -2000000

patchObj ==
  [diffs |-> <<>>, start1 |-> Null, start2 |-> Null,
   length1 |-> 0, length2 |-> 0]

patchCoords(start, length) ==
  IF length = 0 THEN numberToString(start) \o <<44, 48>>
  ELSE IF length = 1 THEN numberToString(start + 1)
  ELSE numberToString(start + 1) \o <<44>> \o numberToString(length)

\* "@@ -" + coords1 + " +" + coords2 + " @@\n"
patchHeaderText(patch) ==
  <<64, 64, 32, 45>> \o patchCoords(patch.start1, patch.length1)
    \o <<32, 43>> \o patchCoords(patch.start2, patch.length2)
    \o <<32, 64, 64, 10>>

patchLineText(diff) ==
  Prepend(IF diff.op = DIFF_INSERT THEN <<43>>
          ELSE IF diff.op = DIFF_DELETE THEN <<45>> ELSE <<32>>,
          encodeURI(diff.text))

patchJoin(header, text) ==
  IF \E x \in 1..Len(text) : text[x].error # "" THEN Throw("URIError")
  ELSE Return(replaceEscapedSpaces(
                header \o Concat([x \in 1..Len(text) |->
                                    text[x].value \o <<10>>])))

patchObjToString(patch) ==
  patchJoin(patchHeaderText(patch),
            [x \in 1..Len(patch.diffs) |-> patchLineText(patch.diffs[x])])

patchToTextJoin(text) ==
  IF \E x \in 1..Len(text) : text[x].error # "" THEN Throw("URIError")
  ELSE Return(Concat([x \in 1..Len(text) |-> text[x].value]))

patchToText(patches) ==
  patchToTextJoin([x \in 1..Len(patches) |-> patchObjToString(patches[x])])

\* The first index from which on s has no digit.
digitsEnd(s, from) ==
  SetMin({j \in from..Len(s) : s[j] \notin 48..57} \cup {Len(s) + 1})

\* line.match(/^@@ -(\d+),?(\d*) \+(\d+),?(\d*) @@$/): the four groups, or
\* the empty tuple without a match.
patchHeader(line) ==
  LET e1 == digitsEnd(line, 5)
      b2 == IF e1 <= Len(line) /\ line[e1] = 44 THEN e1 + 1 ELSE e1
      e2 == digitsEnd(line, b2)
      b3 == e2 + 2
      e3 == digitsEnd(line, b3)
      b4 == IF e3 <= Len(line) /\ line[e3] = 44 THEN e3 + 1 ELSE e3
      e4 == digitsEnd(line, b4)
  IN IF /\ substring(line, 0, 4) = <<64, 64, 32, 45>>
        /\ e1 > 5
        /\ substring(line, e2 - 1, e2 + 1) = <<32, 43>>
        /\ e3 > b3
        /\ substringFrom(line, e4 - 1) = <<32, 64, 64>>
       THEN <<substring(line, 4, e1 - 1), substring(line, b2 - 1, e2 - 1),
              substring(line, b3 - 1, e3 - 1), substring(line, b4 - 1, e4 - 1)>>
       ELSE <<>>

patchStart(start, length) ==
  IF length = <<>> THEN parseInt(start) - 1
  ELSE IF length = <<48>> THEN parseInt(start)
  ELSE parseInt(start) - 1

patchLength(length) ==
  IF length = <<>> THEN 1
  ELSE IF length = <<48>> THEN 0
  ELSE parseInt(length)

patchOfHeader(m) ==
  [diffs |-> <<>>,
   start1 |-> patchStart(m[1], m[2]), length1 |-> patchLength(m[2]),
   start2 |-> patchStart(m[3], m[4]), length2 |-> patchLength(m[4])]

\* patch.diffs.push(diff), patch the last of patches
patchPush(patches, diff) ==
  [patches EXCEPT ![Len(patches)].diffs = Append(@, diff)]

RECURSIVE patchFromTextPatch(_, _, _)
RECURSIVE patchFromTextLines(_, _, _)
patchFromTextHeader(text, textPointer, patches, m) ==
  IF m = <<>> THEN Throw("Invalid patch string")
  ELSE patchFromTextLines(text, textPointer + 1,
                          Append(patches, patchOfHeader(m)))

patchFromTextPatch(text, textPointer, patches) ==
  IF textPointer >= Len(text) THEN Return(patches)
  ELSE patchFromTextHeader(text, textPointer, patches,
                           patchHeader(text[textPointer + 1]))

patchFromTextLine(text, textPointer, patches, sign, line) ==
  IF line.error # "" THEN Throw("Illegal escape in patchFromText")
  ELSE IF sign = <<45>>
    THEN patchFromTextLines(text, textPointer + 1,
                            patchPush(patches, Diff(DIFF_DELETE, line.value)))
  ELSE IF sign = <<43>>
    THEN patchFromTextLines(text, textPointer + 1,
                            patchPush(patches, Diff(DIFF_INSERT, line.value)))
  ELSE IF sign = <<32>>
    THEN patchFromTextLines(text, textPointer + 1,
                            patchPush(patches, Diff(DIFF_EQUAL, line.value)))
  ELSE IF sign = <<64>> THEN patchFromTextPatch(text, textPointer, patches)
  ELSE IF sign = <<>>
    THEN patchFromTextLines(text, textPointer + 1, patches)
  ELSE Throw("Invalid patch mode")

patchFromTextLines(text, textPointer, patches) ==
  IF textPointer >= Len(text) THEN Return(patches)
  ELSE patchFromTextLine(text, textPointer, patches,
                         charAt(text[textPointer + 1], 0),
                         decodeURI(substringFrom(text[textPointer + 1], 1)))

patchFromText(textline) ==
  IF textline = <<>> THEN Return(<<>>)
  ELSE patchFromTextPatch(split(textline, 10), 0, <<>>)

(***************************************************************************)
(* SpecPatchText: patchToText on short lists of patches whose coordinates  *)
(* and scripts are any, and patchFromText on the text.                     *)
(***************************************************************************)
\* line feed, space, "%", "+", "@", "a", and half of an emoji
PatchTextAlphabet == {10, 32, 37, 43, 64, 97, 55357}

\* 9 is written with two digits
PatchStarts == {0, 9}

MaxPatchLength == 2

MaxPatchOps == 2

MaxPatches == 2

AnyPatches(n) ==
  [diffs : Scripts(TextsOver(PatchTextAlphabet, 1), n),
   start1 : PatchStarts, start2 : PatchStarts,
   length1 : 0..MaxPatchLength, length2 : 0..MaxPatchLength]

\* Lists of one patch, and lists of shorter patches with the same
\* coordinates on both sides.
PatchLists ==
  UNION {[1..k -> {p \in AnyPatches(MaxPatchOps - k + 1) :
                     k > 1 => p.start1 = p.start2 /\ p.length1 = p.length2}] :
           k \in 0..MaxPatches}

\* The caller enters dmp.patchToText(patches).
PatchToTextEnter ==
  /\ pc = "new"
  /\ \E patches \in PatchLists : in' = [patches |-> patches]
  /\ pc' = "patchToText"
  /\ UNCHANGED <<cfg, out>>

\* patchToText returns the text, or throws.
PatchToTextReturn ==
  /\ pc = "patchToText"
  /\ out' = [text |-> patchToText(in.patches), patches |-> Return(<<>>)]
  /\ pc' = IF patchToText(in.patches).error # "" THEN "thrown" ELSE "text"
  /\ UNCHANGED <<cfg, in>>

\* The caller passes the text to dmp.patchFromText, which returns a list of
\* patches, or throws.
PatchFromTextCall ==
  /\ pc = "text"
  /\ out' = [out EXCEPT !.patches = patchFromText(out.text.value)]
  /\ pc' = "done"
  /\ UNCHANGED <<cfg, in>>

NextPatchText == PatchToTextEnter \/ PatchToTextReturn \/ PatchFromTextCall

SpecPatchText == InitDiff /\ [][NextPatchText]_vars

\* C7: for every list of patches, patchToText gives a text, and
\* patchFromText of it is the list: as many patches, each with the same
\* start1, start2, length1, length2 and diffs.
C7_PatchTextRoundTrip ==
  pc \in {"thrown", "done"}
    => pc = "done" /\ out.patches = Return(in.patches)

(***************************************************************************)
(* Match: 32-bit integers are the sets of their bits that are set; scores  *)
(* and thresholds are fractions num / den with den > 0.                    *)
(***************************************************************************)
\* n << 1
bitsShift(n) == {i + 1 : i \in {k \in n : k < 31}}

\* 1 << n
bitsOne(n) == {n % 32}

\* (1 << d) - 1, read as a 32-bit integer
bitsBelow(d) == 0..((d % 32) - 1)

\* array[i], undefined read as 0 by the bit operators
bitsGet(array, i) == IF i \in DOMAIN array THEN array[i] ELSE {}

fracLe(a, b) == a.num * b.den <= b.num * a.den

fracMin(a, b) == IF fracLe(b, a) THEN b ELSE a

matchAlphabet_(pattern) ==
  [ch \in {pattern[i] : i \in 1..Len(pattern)} |->
     {(Len(pattern) - i - 1) % 32 :
        i \in {k \in 0..(Len(pattern) - 1) : pattern[k + 1] = ch}}]

\* s[text.charAt(i)]
matchAlphabetAt(s, ch) ==
  IF ch # <<>> /\ ch[1] \in DOMAIN s THEN s[ch[1]] ELSE {}

\* The score of a match with e errors at x; pattern is not empty.
matchBitapScore_(c, pattern, loc, e, x) ==
  IF c.matchDistance = 0
    THEN IF Abs(loc - x) # 0 THEN [num |-> 1, den |-> 1]
         ELSE [num |-> e, den |-> Len(pattern)]
  ELSE [num |-> e * c.matchDistance + Abs(loc - x) * Len(pattern),
        den |-> Len(pattern) * c.matchDistance]

\* bitapNearby with any score for a threshold.
bitapNearbyAny(c, text, pattern, loc) == [num |-> 1, den |-> 1]

\* The threshold after the exact matches near loc.
bitapNearby(c, text, pattern, loc) ==
  IF indexOf(text, pattern, loc) = -1 THEN c.matchThreshold
  ELSE IF lastIndexOf(text, pattern, loc + Len(pattern)) = -1
    THEN fracMin(matchBitapScore_(c, pattern, loc, 0,
                                  indexOf(text, pattern, loc)),
                 c.matchThreshold)
  ELSE fracMin(matchBitapScore_(c, pattern, loc, 0,
                                lastIndexOf(text, pattern,
                                            loc + Len(pattern))),
               fracMin(matchBitapScore_(c, pattern, loc, 0,
                                        indexOf(text, pattern, loc)),
                       c.matchThreshold))

\* The binary search of how far from loc a match with d errors may stray.
RECURSIVE bitapBinMid(_, _, _, _, _, _, _, _)
bitapBinMid(c, pattern, loc, d, scoreThreshold, binMin, binMid, binMax) ==
  IF binMin >= binMid THEN binMid
  ELSE IF fracLe(matchBitapScore_(c, pattern, loc, d, loc + binMid),
                 scoreThreshold)
    THEN bitapBinMid(c, pattern, loc, d, scoreThreshold, binMid,
                     ((binMax - binMid) \div 2) + binMid, binMax)
  ELSE bitapBinMid(c, pattern, loc, d, scoreThreshold, binMin,
                   ((binMid - binMin) \div 2) + binMin, binMid)

\* rd[j] from rd[j + 1] and the row of the level before.
bitapRow(d, rd, lastRd, j, charMatch) ==
  IF d = 0 THEN (bitsShift(bitsGet(rd, j + 1)) \cup {0}) \cap charMatch
  ELSE ((bitsShift(bitsGet(rd, j + 1)) \cup {0}) \cap charMatch)
         \cup (bitsShift(bitsGet(lastRd, j + 1) \cup bitsGet(lastRd, j))
                 \cup {0})
         \cup bitsGet(lastRd, j + 1)

\* The scan for j from finish down to start; st holds j, start, rd,
\* scoreThreshold and bestLoc.
RECURSIVE bitapScan(_, _, _, _, _, _, _, _)
bitapFound(c, text, pattern, loc, s, d, lastRd, st) ==
  IF ~fracLe(matchBitapScore_(c, pattern, loc, d, st.j - 1),
             st.scoreThreshold)
    THEN bitapScan(c, text, pattern, loc, s, d, lastRd,
                   [st EXCEPT !.j = @ - 1])
  ELSE IF st.j - 1 > loc
    THEN bitapScan(c, text, pattern, loc, s, d, lastRd,
                   [st EXCEPT
                      !.scoreThreshold =
                        matchBitapScore_(c, pattern, loc, d, st.j - 1),
                      !.bestLoc = st.j - 1,
                      !.start = Max(1, 2 * loc - (st.j - 1)),
                      !.j = @ - 1])
  ELSE [st EXCEPT
          !.scoreThreshold = matchBitapScore_(c, pattern, loc, d, st.j - 1),
          !.bestLoc = st.j - 1]

bitapCell(c, text, pattern, loc, s, d, lastRd, st) ==
  IF st.rd[st.j] \cap bitsOne(Len(pattern) - 1) # {}
    THEN bitapFound(c, text, pattern, loc, s, d, lastRd, st)
  ELSE bitapScan(c, text, pattern, loc, s, d, lastRd, [st EXCEPT !.j = @ - 1])

bitapScan(c, text, pattern, loc, s, d, lastRd, st) ==
  IF st.j < st.start THEN st
  ELSE bitapCell(c, text, pattern, loc, s, d, lastRd,
                 [st EXCEPT
                    !.rd = (st.j :> bitapRow(d, st.rd, lastRd, st.j,
                                             matchAlphabetAt(
                                               s, charAt(text, st.j - 1))))
                             @@ st.rd])

\* The levels of errors d; lv holds d, binMax, lastRd, scoreThreshold and
\* bestLoc.
RECURSIVE bitapLevels(_, _, _, _, _, _)
bitapLevelEnd(c, text, pattern, loc, s, lv, binMid, st) ==
  IF ~fracLe(matchBitapScore_(c, pattern, loc, lv.d + 1, loc),
             st.scoreThreshold)
    THEN st.bestLoc
  ELSE bitapLevels(c, text, pattern, loc, s,
                   [d |-> lv.d + 1, binMax |-> binMid, lastRd |-> st.rd,
                    scoreThreshold |-> st.scoreThreshold,
                    bestLoc |-> st.bestLoc])

bitapLevel(c, text, pattern, loc, s, lv, binMid) ==
  bitapLevelEnd(c, text, pattern, loc, s, lv, binMid,
                bitapScan(c, text, pattern, loc, s, lv.d, lv.lastRd,
                          [j |-> Min(loc + binMid, Len(text)) + Len(pattern),
                           start |-> Max(1, loc - binMid + 1),
                           rd |-> (Min(loc + binMid, Len(text))
                                     + Len(pattern) + 1)
                                    :> bitsBelow(lv.d),
                           scoreThreshold |-> lv.scoreThreshold,
                           bestLoc |-> lv.bestLoc]))

bitapLevels(c, text, pattern, loc, s, lv) ==
  IF lv.d >= Len(pattern) THEN lv.bestLoc
  ELSE bitapLevel(c, text, pattern, loc, s, lv,
                  bitapBinMid(c, pattern, loc, lv.d, lv.scoreThreshold,
                              0, lv.binMax, lv.binMax))

matchBitap_(c, text, pattern, loc) ==
  IF Len(pattern) > c.matchMaxBits
    THEN Throw("Pattern too long for this browser.")
  ELSE Return(bitapLevels(c, text, pattern, loc, matchAlphabet_(pattern),
                          [d |-> 0, binMax |-> Len(pattern) + Len(text),
                           lastRd |-> <<>>,
                           scoreThreshold |->
                             bitapNearby(c, text, pattern, loc),
                           bestLoc |-> -1]))

matchMainAt(c, text, pattern, loc) ==
  IF text = pattern THEN Return(0)
  ELSE IF Len(text) = 0 THEN Return(-1)
  ELSE IF substring(text, loc, loc + Len(pattern)) = pattern THEN Return(loc)
  ELSE matchBitap_(c, text, pattern, loc)

\* matchMain with loc as it comes.
matchMainUnclamped(c, text, pattern, loc) ==
  matchMainAt(c, text, pattern, loc)

matchMain(c, text, pattern, loc) ==
  matchMainAt(c, text, pattern, Max(0, Min(loc, Len(text))))

(***************************************************************************)
(* patchAddContext_ and patchMake.  A patch is a record of diffs, start1,  *)
(* start2, length1 and length2.                                            *)
(***************************************************************************)
\* The padding at which the pattern around the patch is unique in text, or
\* long enough.
RECURSIVE addContextPadding(_, _, _, _)
addContextPadding(c, patch, text, padding) ==
  LET pattern == substring(text, patch.start2 - padding,
                           patch.start2 + patch.length1 + padding)
  IN IF /\ indexOf(text, pattern, 0) # lastIndexOf(text, pattern, Len(text))
        /\ Len(pattern) < c.matchMaxBits - c.patchMargin - c.patchMargin
       THEN addContextPadding(c, patch, text, padding + c.patchMargin)
       ELSE padding

addContext(patch, text, padding) ==
  LET prefix == substring(text, patch.start2 - padding, patch.start2)
      suffix == substring(text, patch.start2 + patch.length1,
                          patch.start2 + patch.length1 + padding)
  IN [patch EXCEPT
        !.diffs = (IF prefix # <<>> THEN <<Diff(DIFF_EQUAL, prefix)>>
                   ELSE <<>>)
                    \o @
                    \o (IF suffix # <<>> THEN <<Diff(DIFF_EQUAL, suffix)>>
                        ELSE <<>>),
        !.start1 = @ - Len(prefix),
        !.start2 = @ - Len(prefix),
        !.length1 = @ + Len(prefix) + Len(suffix),
        !.length2 = @ + Len(prefix) + Len(suffix)]

patchAddContext_(c, patch, text) ==
  IF Len(text) = 0 THEN patch
  ELSE addContext(patch, text,
                  addContextPadding(c, patch, text, 0) + c.patchMargin)

\* A new patch starts at the first edit.
patchMakeStart(diffs, st) ==
  IF st.patchDiffLength = 0 /\ At(diffs, st.x).op # DIFF_EQUAL
    THEN [st EXCEPT !.patch.start1 = st.charCount1,
                    !.patch.start2 = st.charCount2]
  ELSE st

patchMakeInsert(diffText, diff, st) ==
  [st EXCEPT
     !.patch.diffs = Append(@, diff),
     !.patchDiffLength = @ + 1,
     !.patch.length2 = @ + Len(diffText),
     !.postpatchText = substring(@, 0, st.charCount2) \o diffText
                         \o substringFrom(@, st.charCount2)]

patchMakeDelete(diffText, diff, st) ==
  [st EXCEPT
     !.patch.length1 = @ + Len(diffText),
     !.patch.diffs = Append(@, diff),
     !.patchDiffLength = @ + 1,
     !.postpatchText = substring(@, 0, st.charCount2)
                         \o substringFrom(@, st.charCount2 + Len(diffText))]

\* patchMakeEqual without charCount1 = charCount2 when a patch is closed.
patchMakeEqualApart(c, diffs, diffText, diff, st) ==
  IF /\ Len(diffText) <= 2 * c.patchMargin
     /\ st.patchDiffLength # 0
     /\ Len(diffs) # st.x + 1
    THEN [st EXCEPT
            !.patch.diffs = Append(@, diff),
            !.patchDiffLength = @ + 1,
            !.patch.length1 = @ + Len(diffText),
            !.patch.length2 = @ + Len(diffText)]
  ELSE IF Len(diffText) >= 2 * c.patchMargin /\ st.patchDiffLength # 0
    THEN [st EXCEPT
            !.patches = Append(@, patchAddContext_(c, st.patch,
                                                   st.prepatchText)),
            !.patch = patchObj,
            !.patchDiffLength = 0,
            !.prepatchText = st.postpatchText]
  ELSE st

patchMakeEqual(c, diffs, diffText, diff, st) ==
  IF /\ Len(diffText) <= 2 * c.patchMargin
     /\ st.patchDiffLength # 0
     /\ Len(diffs) # st.x + 1
    THEN [st EXCEPT
            !.patch.diffs = Append(@, diff),
            !.patchDiffLength = @ + 1,
            !.patch.length1 = @ + Len(diffText),
            !.patch.length2 = @ + Len(diffText)]
  ELSE IF Len(diffText) >= 2 * c.patchMargin /\ st.patchDiffLength # 0
    THEN [st EXCEPT
            !.patches = Append(@, patchAddContext_(c, st.patch,
                                                   st.prepatchText)),
            !.patch = patchObj,
            !.patchDiffLength = 0,
            !.prepatchText = st.postpatchText,
            !.charCount1 = st.charCount2]
  ELSE st

patchMakeOp(c, diffs, diff, st) ==
  IF diff.op = DIFF_INSERT THEN patchMakeInsert(diff.text, diff, st)
  ELSE IF diff.op = DIFF_DELETE THEN patchMakeDelete(diff.text, diff, st)
  ELSE patchMakeEqual(c, diffs, diff.text, diff, st)

\* Update the current character count, and go to the next diff.
patchMakeCount(diff, st) ==
  [st EXCEPT
     !.charCount1 = IF diff.op # DIFF_INSERT THEN @ + Len(diff.text) ELSE @,
     !.charCount2 = IF diff.op # DIFF_DELETE THEN @ + Len(diff.text) ELSE @,
     !.x = @ + 1]

RECURSIVE patchMakeLoop(_, _, _)
patchMakeLoop(c, diffs, st) ==
  IF st.x >= Len(diffs)
    THEN IF st.patchDiffLength # 0
           THEN Append(st.patches,
                       patchAddContext_(c, st.patch, st.prepatchText))
           ELSE st.patches
  ELSE patchMakeLoop(c, diffs,
         patchMakeCount(At(diffs, st.x),
           patchMakeOp(c, diffs, At(diffs, st.x),
                       patchMakeStart(diffs, st))))

\* patchMake(text1, diffs)
patchMakeDiffs(c, text1, diffs) ==
  IF diffs = Hang THEN Hang
  ELSE IF Len(diffs) = 0 THEN <<>>
  ELSE patchMakeLoop(c, diffs,
         [x |-> 0, patches |-> <<>>, patch |-> patchObj,
          patchDiffLength |-> 0, charCount1 |-> 0, charCount2 |-> 0,
          prepatchText |-> text1, postpatchText |-> text1])

patchMakeCleanup(c, diffs) ==
  IF Len(diffs) <= 2 THEN diffs
  ELSE IF diffCleanupSemantic(diffs) = Hang THEN Hang
  ELSE diffCleanupEfficiency(c, diffCleanupSemantic(diffs))

\* patchMake(text1, text2)
patchMake(c, text1, text2, budget) ==
  patchMakeDiffs(c, text1,
                 patchMakeCleanup(c, diffMainCall(c, text1, text2, TRUE,
                                                  budget)))

(***************************************************************************)
(* patchDeepCopy, patchAddPadding, patchSplitMax.  A patch object of the   *)
(* caller carries in ref its place in the caller's list; an object made by *)
(* new patchObj() carries no ref.                                          *)
(***************************************************************************)
\* patchApply without the copy: it works on the patches of the caller.
patchShallowCopy(patches) == patches

patchDeepCopy(patches) ==
  [x \in 1..Len(patches) |->
     [diffs |-> [y \in 1..Len(patches[x].diffs) |->
                   Diff(patches[x].diffs[y].op, patches[x].diffs[y].text)],
      start1 |-> patches[x].start1, start2 |-> patches[x].start2,
      length1 |-> patches[x].length1, length2 |-> patches[x].length2]]

padFirst(patch, nullPadding) ==
  IF Len(patch.diffs) = 0 \/ patch.diffs[1].op # DIFF_EQUAL
    THEN [patch EXCEPT
            !.diffs = <<Diff(DIFF_EQUAL, nullPadding)>> \o @,
            !.start1 = @ - Len(nullPadding),
            !.start2 = @ - Len(nullPadding),
            !.length1 = @ + Len(nullPadding),
            !.length2 = @ + Len(nullPadding)]
  ELSE IF Len(nullPadding) > Len(patch.diffs[1].text)
    THEN [patch EXCEPT
            !.diffs[1].text = substringFrom(nullPadding, Len(@)) \o @,
            !.start1 = @ - (Len(nullPadding) - Len(patch.diffs[1].text)),
            !.start2 = @ - (Len(nullPadding) - Len(patch.diffs[1].text)),
            !.length1 = @ + (Len(nullPadding) - Len(patch.diffs[1].text)),
            !.length2 = @ + (Len(nullPadding) - Len(patch.diffs[1].text))]
  ELSE patch

padLast(patch, nullPadding) ==
  IF Len(patch.diffs) = 0 \/ patch.diffs[Len(patch.diffs)].op # DIFF_EQUAL
    THEN [patch EXCEPT
            !.diffs = Append(@, Diff(DIFF_EQUAL, nullPadding)),
            !.length1 = @ + Len(nullPadding),
            !.length2 = @ + Len(nullPadding)]
  ELSE IF Len(nullPadding) > Len(patch.diffs[Len(patch.diffs)].text)
    THEN [patch EXCEPT
            !.diffs[Len(patch.diffs)].text =
              @ \o substring(nullPadding, 0, Len(nullPadding) - Len(@)),
            !.length1 = @ + (Len(nullPadding)
                               - Len(patch.diffs[Len(patch.diffs)].text)),
            !.length2 = @ + (Len(nullPadding)
                               - Len(patch.diffs[Len(patch.diffs)].text))]
  ELSE patch

\* The patches after patchAddPadding, and the padding it returns; patches
\* is not empty.
patchAddPadding(c, patches) ==
  LET nullPadding == [x \in 1..c.patchMargin |-> x]
      bumped == [x \in 1..Len(patches) |->
                   [patches[x] EXCEPT !.start1 = @ + c.patchMargin,
                                      !.start2 = @ + c.patchMargin]]
      first == [bumped EXCEPT ![1] = padFirst(@, nullPadding)]
  IN [patches |-> [first EXCEPT ![Len(first)] = padLast(@, nullPadding)],
      nullPadding |-> nullPadding]

\* One diff of bigpatch moves, whole or in part, to the fragment; fr holds
\* the fragment patch, empty, the diffs left of bigpatch, start1 and start2.
splitTake(c, fr, diffType, diffText) ==
  IF diffType = DIFF_INSERT
    THEN [fr EXCEPT
            !.patch.length2 = @ + Len(diffText),
            !.start2 = @ + Len(diffText),
            !.patch.diffs = Append(@, Head(fr.bigdiffs)),
            !.bigdiffs = Tail(@),
            !.empty = FALSE]
  ELSE IF /\ diffType = DIFF_DELETE
          /\ Len(fr.patch.diffs) = 1
          /\ fr.patch.diffs[1].op = DIFF_EQUAL
          /\ Len(diffText) > 2 * c.matchMaxBits
    THEN [fr EXCEPT
            !.patch.length1 = @ + Len(diffText),
            !.start1 = @ + Len(diffText),
            !.empty = FALSE,
            !.patch.diffs = Append(@, Diff(diffType, diffText)),
            !.bigdiffs = Tail(@)]
  ELSE [fr EXCEPT
          !.patch.length1 = @ + Len(diffText),
          !.start1 = @ + Len(diffText),
          !.patch.length2 =
            IF diffType = DIFF_EQUAL THEN @ + Len(diffText) ELSE @,
          !.start2 = IF diffType = DIFF_EQUAL THEN @ + Len(diffText) ELSE @,
          !.empty = IF diffType = DIFF_EQUAL THEN @ ELSE FALSE,
          !.patch.diffs = Append(@, Diff(diffType, diffText)),
          !.bigdiffs = IF diffText = Head(@).text THEN Tail(@)
                       ELSE SetText(@, 0,
                                    substringFrom(Head(@).text,
                                                  Len(diffText)))]

RECURSIVE splitFill(_, _)
splitFill(c, fr) ==
  IF /\ Len(fr.bigdiffs) # 0
     /\ fr.patch.length1 < c.matchMaxBits - c.patchMargin
    THEN splitFill(c,
           splitTake(c, fr, Head(fr.bigdiffs).op,
                     IF /\ Head(fr.bigdiffs).op # DIFF_INSERT
                        /\ ~(/\ Head(fr.bigdiffs).op = DIFF_DELETE
                             /\ Len(fr.patch.diffs) = 1
                             /\ fr.patch.diffs[1].op = DIFF_EQUAL
                             /\ Len(Head(fr.bigdiffs).text)
                                  > 2 * c.matchMaxBits)
                       THEN substring(Head(fr.bigdiffs).text, 0,
                                      c.matchMaxBits - fr.patch.length1
                                        - c.patchMargin)
                       ELSE Head(fr.bigdiffs).text))
  ELSE fr

\* splitPostcontext without patch.length2 += postcontext.length.
splitPostcontextLength1(patch, postcontext) ==
  IF postcontext = <<>> THEN patch
  ELSE [patch EXCEPT
          !.length1 = @ + Len(postcontext),
          !.diffs = IF Len(@) # 0 /\ @[Len(@)].op = DIFF_EQUAL
                      THEN [@ EXCEPT ![Len(@)].text = @ \o postcontext]
                    ELSE Append(@, Diff(DIFF_EQUAL, postcontext))]

\* Append the end context for this patch.
splitPostcontext(patch, postcontext) ==
  IF postcontext = <<>> THEN patch
  ELSE [patch EXCEPT
          !.length1 = @ + Len(postcontext),
          !.length2 = @ + Len(postcontext),
          !.diffs = IF Len(@) # 0 /\ @[Len(@)].op = DIFF_EQUAL
                      THEN [@ EXCEPT ![Len(@)].text = @ \o postcontext]
                    ELSE Append(@, Diff(DIFF_EQUAL, postcontext))]

\* The fragments of bigpatch; sp holds the diffs left of bigpatch, start1,
\* start2, precontext and the fragments made.
RECURSIVE splitFragments(_, _)
splitFragment(c, sp, fr) ==
  splitFragments(c,
    [bigdiffs |-> fr.bigdiffs, start1 |-> fr.start1, start2 |-> fr.start2,
     precontext |->
       substringFrom(diffText2(fr.patch.diffs),
                     Len(diffText2(fr.patch.diffs)) - c.patchMargin),
     fragments |->
       IF fr.empty THEN sp.fragments
       ELSE Append(sp.fragments,
                   splitPostcontext(fr.patch,
                                    substring(diffText1(fr.bigdiffs), 0,
                                              c.patchMargin)))])

splitFragments(c, sp) ==
  IF Len(sp.bigdiffs) = 0 THEN sp.fragments
  ELSE splitFragment(c, sp,
         splitFill(c,
           [patch |->
              [patchObj EXCEPT
                 !.start1 = sp.start1 - Len(sp.precontext),
                 !.start2 = sp.start2 - Len(sp.precontext),
                 !.length1 = Len(sp.precontext),
                 !.length2 = Len(sp.precontext),
                 !.diffs = IF sp.precontext # <<>>
                             THEN <<Diff(DIFF_EQUAL, sp.precontext)>>
                           ELSE <<>>],
            empty |-> TRUE, bigdiffs |-> sp.bigdiffs,
            start1 |-> sp.start1, start2 |-> sp.start2]))

\* patchSplitMax with half the patchSize.
patchSplitMaxHalf(c, patches) ==
  Concat([x \in 1..Len(patches) |->
            IF patches[x].length1 <= c.matchMaxBits \div 2 THEN <<patches[x]>>
            ELSE splitFragments([c EXCEPT !.matchMaxBits = @ \div 2],
                   [bigdiffs |-> patches[x].diffs,
                    start1 |-> patches[x].start1,
                    start2 |-> patches[x].start2,
                    precontext |-> <<>>, fragments |-> <<>>])])

\* patchSplitMax leaving every patch whole.
patchSplitMaxNone(c, patches) == patches

\* The patches after patchSplitMax: each patch longer than matchMaxBits is
\* replaced, in place, by its fragments.
patchSplitMax(c, patches) ==
  Concat([x \in 1..Len(patches) |->
            IF patches[x].length1 <= c.matchMaxBits THEN <<patches[x]>>
            ELSE splitFragments(c,
                   [bigdiffs |-> patches[x].diffs,
                    start1 |-> patches[x].start1,
                    start2 |-> patches[x].start2,
                    precontext |-> <<>>, fragments |-> <<>>])])

\* The patch objects patchSplitMax removed from the list, as it leaves
\* them: with no diffs.
patchSplitRemoved(c, patches) ==
  SelectSeq([x \in 1..Len(patches) |-> [patches[x] EXCEPT !.diffs = <<>>]],
            LAMBDA patch : patch.length1 > c.matchMaxBits)

(***************************************************************************)
(* diffXIndex, diffLevenshtein and patchApply                              *)
(***************************************************************************)
\* diffXIndex without the test for a deleted location.
diffXIndexNoDelete(diffs, loc) ==
  LET chars1(k) == Len(diffText1(SubSeq(diffs, 1, k)))
      chars2(k) == Len(diffText2(SubSeq(diffs, 1, k)))
      x == SetMin({k \in 0..(Len(diffs) - 1) : chars1(k + 1) > loc}
                    \cup {Len(diffs)})
  IN chars2(x) + (loc - chars1(x))

diffXIndex(diffs, loc) ==
  LET chars1(k) == Len(diffText1(SubSeq(diffs, 1, k)))
      chars2(k) == Len(diffText2(SubSeq(diffs, 1, k)))
      x == SetMin({k \in 0..(Len(diffs) - 1) : chars1(k + 1) > loc}
                    \cup {Len(diffs)})
  IN IF Len(diffs) # x /\ At(diffs, x).op = DIFF_DELETE THEN chars2(x)
     ELSE chars2(x) + (loc - chars1(x))

RECURSIVE levenshteinLoop(_, _, _, _, _)
levenshteinLoop(diffs, x, levenshtein, insertions, deletions) ==
  IF x >= Len(diffs) THEN levenshtein + Max(insertions, deletions)
  ELSE IF At(diffs, x).op = DIFF_INSERT
    THEN levenshteinLoop(diffs, x + 1, levenshtein,
                         insertions + Len(At(diffs, x).text), deletions)
  ELSE IF At(diffs, x).op = DIFF_DELETE
    THEN levenshteinLoop(diffs, x + 1, levenshtein, insertions,
                         deletions + Len(At(diffs, x).text))
  ELSE levenshteinLoop(diffs, x + 1,
                       levenshtein + Max(insertions, deletions), 0, 0)

diffLevenshtein(diffs) == levenshteinLoop(diffs, 0, 0, 0, 0)

\* The modifications of an imperfectly matched patch, one by one; diffs
\* maps the indices of text1 to those of the text found.
RECURSIVE applyMods(_, _, _, _, _, _)
applyMods(mods, diffs, startLoc, y, index1, text) ==
  IF y >= Len(mods) THEN text
  ELSE IF At(mods, y).op = DIFF_INSERT
    THEN applyMods(mods, diffs, startLoc, y + 1,
                   index1 + Len(At(mods, y).text),
                   substring(text, 0, startLoc + diffXIndex(diffs, index1))
                     \o At(mods, y).text
                     \o substringFrom(text,
                                      startLoc + diffXIndex(diffs, index1)))
  ELSE IF At(mods, y).op = DIFF_DELETE
    THEN applyMods(mods, diffs, startLoc, y + 1, index1,
                   substring(text, 0, startLoc + diffXIndex(diffs, index1))
                     \o substringFrom(text,
                          startLoc + diffXIndex(diffs,
                                       index1 + Len(At(mods, y).text))))
  ELSE applyMods(mods, diffs, startLoc, y + 1,
                 index1 + Len(At(mods, y).text), text)

\* applyImperfect without the return of the refusal: the modifications are
\* made all the same.
applyImperfectAnyway(c, patch, text1, startLoc, st, diffs) ==
  [st EXCEPT
     !.results = Append(@, ~(/\ Len(text1) > c.matchMaxBits
                             /\ diffLevenshtein(diffs)
                                  * c.patchDeleteThreshold.den
                                  > c.patchDeleteThreshold.num * Len(text1))),
     !.text = applyMods(patch.diffs, diffs, startLoc, 0, 0, @)]

\* An imperfect match: diffs is diffMain(text1, text2, false).  When
\* diffCleanupSemanticLossless does not return, neither does patchApply.
applyImperfect(c, patch, text1, startLoc, st, diffs) ==
  IF /\ Len(text1) > c.matchMaxBits
     /\ diffLevenshtein(diffs) * c.patchDeleteThreshold.den
          > c.patchDeleteThreshold.num * Len(text1)
    THEN [st EXCEPT !.results = Append(@, FALSE)]
  ELSE IF diffCleanupSemanticLossless(diffs) = Hang
    THEN [st EXCEPT !.hang = TRUE]
  ELSE [st EXCEPT
          !.results = Append(@, TRUE),
          !.text = applyMods(patch.diffs, diffCleanupSemanticLossless(diffs),
                             startLoc, 0, 0, @)]

\* A match found at startLoc; text2 is the text found.
applyFound(c, patch, budget, text1, startLoc, st, text2) ==
  IF text1 = text2
    THEN [st EXCEPT
            !.results = Append(@, TRUE),
            !.text = substring(@, 0, startLoc) \o diffText2(patch.diffs)
                       \o substringFrom(@, startLoc + Len(text1))]
  ELSE applyImperfect(c, patch, text1, startLoc, st,
                      diffMainCall(c, text1, text2, FALSE, budget))

\* The end of a monster delete, or -1.
applyEndLoc(c, text, text1, expectedLoc, startLoc) ==
  IF Len(text1) > c.matchMaxBits /\ startLoc # -1
    THEN matchMain(c, text,
                   substringFrom(text1, Len(text1) - c.matchMaxBits),
                   expectedLoc + Len(text1) - c.matchMaxBits).value
  ELSE -1

applyStartLoc(c, text, text1, expectedLoc) ==
  IF Len(text1) > c.matchMaxBits
    THEN matchMain(c, text, substring(text1, 0, c.matchMaxBits),
                   expectedLoc)
  ELSE matchMain(c, text, text1, expectedLoc)

\* What the loop knows of patch x once it has looked for it: startLoc is
\* -1 when it has not located the patch.
applyLoc(patch, expectedLoc, startLoc) ==
  [start2 |-> patch.start2, length1 |-> patch.length1,
   length2 |-> patch.length2, expectedLoc |-> expectedLoc,
   startLoc |-> startLoc]

applyLocated(c, patch, budget, text1, expectedLoc, startLoc, endLoc, st) ==
  IF \/ startLoc = -1
     \/ /\ Len(text1) > c.matchMaxBits
        /\ (endLoc = -1 \/ startLoc >= endLoc)
    THEN [st EXCEPT !.x = @ + 1,
                    !.delta = @ - (patch.length2 - patch.length1),
                    !.results = Append(@, FALSE),
                    !.locs = Append(@, applyLoc(patch, expectedLoc, -1))]
  ELSE applyFound(c, patch, budget, text1, startLoc,
                  [st EXCEPT !.x = @ + 1, !.delta = startLoc - expectedLoc,
                             !.locs = Append(@, applyLoc(patch, expectedLoc,
                                                         startLoc))],
                  IF endLoc = -1
                    THEN substring(st.text, startLoc, startLoc + Len(text1))
                  ELSE substring(st.text, startLoc, endLoc + c.matchMaxBits))

\* One patch; startLoc is what matchMain returns or throws.
applyStart(c, patch, budget, text1, expectedLoc, startLoc, st) ==
  IF startLoc.error # "" THEN [st EXCEPT !.error = startLoc.error]
  ELSE applyLocated(c, patch, budget, text1, expectedLoc, startLoc.value,
                    applyEndLoc(c, st.text, text1, expectedLoc,
                                startLoc.value),
                    st)

\* The text and delta as one more patch leaves them, added to those before
\* it.
applyTrace(st) ==
  [st EXCEPT !.texts = Append(@, st.text), !.deltas = Append(@, st.delta)]

\* The patches one by one; st holds x, text, delta and results, and texts
\* and deltas: the text and delta before the first patch and after each
\* one, and locs: where each patch was expected and found.
RECURSIVE patchApplyLoop(_, _, _, _)
patchApplyLoop(c, patches, budget, st) ==
  IF st.hang \/ st.error # "" \/ st.x >= Len(patches) THEN st
  ELSE patchApplyLoop(c, patches, budget,
         applyTrace(
           applyStart(c, At(patches, st.x), budget,
                      diffText1(At(patches, st.x).diffs),
                      At(patches, st.x).start2 + st.delta,
                      applyStartLoc(c, st.text,
                                    diffText1(At(patches, st.x).diffs),
                                    At(patches, st.x).start2 + st.delta),
                      st)))

\* The patch objects of the caller.
callerObjects(patches) ==
  [x \in 1..Len(patches) |->
     [diffs |-> patches[x].diffs,
      start1 |-> patches[x].start1, start2 |-> patches[x].start2,
      length1 |-> patches[x].length1, length2 |-> patches[x].length2,
      ref |-> x]]

\* The list of the caller, given the objects a call has written to.
callerPatches(patches, objects) ==
  [x \in 1..Len(patches) |->
     IF \E k \in 1..Len(objects) :
          "ref" \in DOMAIN objects[k] /\ objects[k].ref = x
       THEN LET o == objects[CHOOSE k \in 1..Len(objects) :
                               "ref" \in DOMAIN objects[k]
                                 /\ objects[k].ref = x]
            IN [diffs |-> o.diffs, start1 |-> o.start1, start2 |-> o.start2,
                length1 |-> o.length1, length2 |-> o.length2]
     ELSE patches[x]]

patchApplyEnd(patches, nullPadding, objects, st) ==
  [text |-> substring(st.text, Len(nullPadding),
                      Len(st.text) - Len(nullPadding)),
   results |-> st.results,
   patches |-> callerPatches(patches, objects),
   hang |-> st.hang, error |-> st.error, texts |-> st.texts,
   deltas |-> st.deltas, locs |-> st.locs]

patchApplyPadded(c, patches, text, budget, padded) ==
  patchApplyEnd(patches, padded.nullPadding,
                patchSplitMax(c, padded.patches)
                  \o patchSplitRemoved(c, padded.patches),
                patchApplyLoop(c, patchSplitMax(c, padded.patches), budget,
                               [x |-> 0,
                                text |-> padded.nullPadding \o text
                                           \o padded.nullPadding,
                                delta |-> 0, results |-> <<>>,
                                hang |-> FALSE, error |-> "",
                                texts |-> <<padded.nullPadding \o text
                                              \o padded.nullPadding>>,
                                deltas |-> <<0>>, locs |-> <<>>]))

\* patchApply(patches, text): the text and the results it returns, the
\* patches of the caller as the call leaves them, and whether the call hangs.
patchApply(c, patches, text, budget) ==
  IF Len(patches) = 0
    THEN [text |-> text, results |-> <<>>, patches |-> patches,
          hang |-> FALSE, error |-> "", texts |-> <<text>>,
          deltas |-> <<0>>, locs |-> <<>>]
  ELSE patchApplyPadded(c, patches, text, budget,
                        patchAddPadding(c,
                          patchDeepCopy(callerObjects(patches))))

(***************************************************************************)
(* SpecPatch: patchMake(text1, text2) and then patchApply of its patches   *)
(* to a text.  The texts are short ones, texts with an equality long       *)
(* enough to end a patch, texts with a run longer than matchMaxBits, and   *)
(* texts of the line mode.                                                 *)
(***************************************************************************)
MaxShort == 2

MaxEdge == 1

\* More than matchMaxBits characters.
RunLen == 40

\* "c", once more than 2 * patchMargin times: an equality between two
\* edits that is too long to stay inside one patch.
Gap == [i \in 1..(2 * Defaults.patchMargin + 1) |-> 99]

\* "d", RunLen times
Run == [i \in 1..RunLen |-> 100]

ShortTexts == Texts(MaxShort)

GapTexts == {h \o Gap \o t : h \in Texts(MaxEdge), t \in Texts(MaxEdge)}

RunTexts == {h \o Run \o t : h \in Texts(MaxEdge), t \in Texts(MaxEdge)}

\* Lines with one head, and a last line that is "" or "valueOf".
LineTexts ==
  {Concat([i \in 1..NumLines |-> Line(h)]) \o last :
     h \in LineHeads, last \in {<<>>, <<118, 97, 108, 117, 101, 79, 102>>}}

\* More than four times matchMaxBits - patchMargin characters.
BigLen == 126

\* "a", "d" BigLen times, "b": the patch that deletes the run is longer than
\* matchMaxBits and stays whole.
BigText == <<97>> \o [i \in 1..BigLen |-> 100] \o <<98>>

\* BigText with the middle of its run replaced: both ends of the patch
\* match it, and more than half of the patch does not.
DamagedText ==
  <<97>> \o [i \in 1..BigLen |->
              IF \/ i <= Defaults.matchMaxBits - Defaults.patchMargin
                 \/ i > BigLen - (Defaults.matchMaxBits - Defaults.patchMargin)
                THEN 100 ELSE 101]
    \o <<98>>

\* The big delete, made when diffMain has a deadline.
BigPairs(c) == IF c.diffTimeout > 0 THEN {<<BigText, <<97, 98>>>>} ELSE {}

\* The pairs (text1, text2) of patchMake.
PatchPairs ==
  (ShortTexts \X ShortTexts) \cup (GapTexts \X (GapTexts \cup ShortTexts))
    \cup (RunTexts \X (RunTexts \cup Texts(MaxEdge)))
    \cup (LineTexts \X LineTexts)

\* The caller enters dmp.patchMake(text1, text2).
PatchMakeEnter ==
  /\ pc = "new"
  /\ \E texts \in PatchPairs \cup BigPairs(cfg),
        budget \in IF cfg.diffTimeout > 0 THEN 0..MaxBudget ELSE {0} :
       in' = [text1 |-> texts[1], text2 |-> texts[2],
              checklines |-> TRUE, budget |-> budget]
  /\ pc' = "patchMake"
  /\ UNCHANGED <<cfg, out>>

\* patchMake returns its patches, unless it never returns.
PatchMakeReturn ==
  /\ pc = "patchMake"
  /\ out' = patchMake(cfg, in.text1, in.text2, in.budget)
  /\ pc' = IF out' = Hang THEN "hung" ELSE "made"
  /\ UNCHANGED <<cfg, in>>

\* The texts the patches of (text1, text2) are applied to: their source and,
\* for texts without a long run, their target and the short texts; for the
\* big delete, the damaged text.
ApplyTexts(text1, text2) ==
  {text1} \cup (IF Len(text1) < RunLen /\ Len(text2) < RunLen
                 THEN {text2} \cup Texts(MaxEdge) ELSE {})
          \cup (IF text1 = BigText THEN {DamagedText} ELSE {})

\* The caller enters dmp.patchApply(patches, text) with the patches made.
PatchApplyEnter ==
  /\ pc = "made"
  /\ \E text \in ApplyTexts(in.text1, in.text2) :
       in' = [text1 |-> in.text1, text2 |-> in.text2,
              checklines |-> TRUE, budget |-> in.budget, text |-> text]
  /\ pc' = "patchApply"
  /\ UNCHANGED <<cfg, out>>

\* patchApply returns the new text and the results: made is the list the
\* caller passed, patches the same list after the call.
patchApplyOut(made, r) ==
  [made |-> made, patches |-> r.patches, text |-> r.text,
   results |-> r.results, texts |-> r.texts, error |-> r.error,
   hang |-> r.hang, deltas |-> r.deltas, locs |-> r.locs]

PatchApplyReturn ==
  /\ pc = "patchApply"
  /\ out' = patchApplyOut(out, patchApply(cfg, out, in.text, in.budget))
  /\ pc' = IF out'.hang THEN "hung"
           ELSE IF out'.error # "" THEN "thrown"
           ELSE "done"
  /\ UNCHANGED <<cfg, in>>

NextPatch ==
  \/ SetDiffTimeout
  \/ PatchMakeEnter
  \/ PatchMakeReturn
  \/ PatchApplyEnter
  \/ PatchApplyReturn

SpecPatch == InitDiff /\ [][NextPatch]_vars

\* C11: in patchApply a patch whose result is false leaves the working
\* text as it was before that patch, be it that no match was found or that
\* the match was too poor to delete on; so when every result is false the
\* text returned is the text passed; and patchApply throws on no patch
\* that cannot be located.
C11_FalseKeepsText ==
  /\ pc # "thrown"
  /\ pc = "done"
       => /\ Len(out.texts) = Len(out.results) + 1
          /\ \A k \in 1..Len(out.results) :
               ~out.results[k] => out.texts[k + 1] = out.texts[k]
          /\ (\A k \in 1..Len(out.results) : ~out.results[k])
               => out.text = in.text

\* The big delete is refused on the damaged text: both ends of the patch
\* are found and the Levenshtein distance is more than half its length.
C11_Witness ==
  /\ pc = "done"
  /\ in.text = DamagedText
  /\ out.results = <<FALSE>>
  /\ out.text = DamagedText

\* Patches that cannot be located: every result is false.
C11_NotFound ==
  /\ pc = "done"
  /\ Len(out.results) = 2
  /\ out.results = <<FALSE, FALSE>>
  /\ in.text # in.text1

\* C8: patchApply(patchMake(a, b), a) returns b, and every entry of its
\* results is true.
C8_PatchRoundTrip ==
  pc = "done" /\ in.text = in.text1
    => /\ out.text = in.text2
       /\ \A i \in 1..Len(out.results) : out.results[i]

\* The list patchApply works on before it splits: the copy, padded.
PaddedCopy == patchAddPadding(cfg, patchDeepCopy(out.made)).patches

\* No patch of the list is longer, once padded, than matchMaxBits.
NoneSplit ==
  \A i \in 1..Len(PaddedCopy) : PaddedCopy[i].length1 <= cfg.matchMaxBits

C10_NoSideEffects == pc = "done" => out.patches = out.made

\* A call that padded its patches and split one of them.
C10_Witness ==
  /\ pc = "done"
  /\ out.made # <<>>
  /\ ~NoneSplit
  /\ Len(out.results) > Len(out.made)

(***************************************************************************)
(* SpecPatchOps: patchMake(text1, text2), and then calls of                *)
(* patchAddPadding and patchSplitMax, in any order, on the list made.      *)
(***************************************************************************)
MaxCalls == 3

\* The number of calls made on the list so far.
Calls(i) == IF "calls" \in DOMAIN i THEN i.calls ELSE 0

\* The number of those that were calls of patchAddPadding.
Pads(i) == IF "pads" \in DOMAIN i THEN i.pads ELSE 0

\* One more call made: call is its name, patches the list it was given.
Called(i, call, patches) ==
  [text1 |-> i.text1, text2 |-> i.text2, checklines |-> i.checklines,
   budget |-> i.budget, calls |-> Calls(i) + 1,
   pads |-> Pads(i) + (IF call = "patchAddPadding" THEN 1 ELSE 0),
   call |-> call, patches |-> patches]

\* dmp.patchAddPadding(patches) pads the list in place; on an empty list
\* it throws (patches[0] is undefined).
PatchAddPaddingCall ==
  /\ pc = "made"
  /\ Calls(in) < MaxCalls
  /\ IF out = <<>>
       THEN pc' = "thrown" /\ UNCHANGED <<in, out>>
     ELSE /\ out' = patchAddPadding(cfg, out).patches
          /\ in' = Called(in, "patchAddPadding", out)
          /\ pc' = pc
  /\ UNCHANGED cfg

\* dmp.patchSplitMax(patches) splits the list in place.
PatchSplitMaxCall ==
  /\ pc = "made"
  /\ Calls(in) < MaxCalls
  /\ out' = patchSplitMax(cfg, out)
  /\ in' = Called(in, "patchSplitMax", out)
  /\ UNCHANGED <<cfg, pc>>

NextPatchOps ==
  \/ SetDiffTimeout
  \/ PatchMakeEnter
  \/ PatchMakeReturn
  \/ PatchAddPaddingCall
  \/ PatchSplitMaxCall

SpecPatchOps == InitDiff /\ [][NextPatchOps]_vars

\* The lengths of the patch are those of the texts of its diffs.
LengthsAgree(patch) ==
  /\ patch.length1 = Len(diffText1(patch.diffs))
  /\ patch.length2 = Len(diffText2(patch.diffs))

\* C12: every patch patchMake returns, and every patch of the list after
\* any sequence of patchAddPadding and patchSplitMax on it, has length1
\* equal to the total length of its diff texts that are not INSERT, and
\* length2 equal to the total length of those that are not DELETE.
C12_LengthsAgree ==
  pc = "made" => \A x \in 1..Len(out) : LengthsAgree(out[x])

\* A list split, padded and split again, with more patches than made.
C12_Witness ==
  /\ pc = "made"
  /\ Calls(in) = MaxCalls
  /\ Len(out) > Len(patchMake(cfg, in.text1, in.text2, in.budget))
  /\ out[1].diffs[1].text[1] = 1
  /\ \A x \in 1..Len(out) : LengthsAgree(out[x])

(***************************************************************************)
(* SpecFromDelta: diffFromDelta on short texts and on deltas of a few      *)
(* tokens, whose counts may or may not add up to the length of the text.   *)
(***************************************************************************)
MaxCount == 3

MaxTokens == 2

\* "=N" and "-N"; "+a" and "+"; the blank token; "= 1", "=1a" and "-+1",
\* which parseInt reads as 1; "=-1", "=" and "a".
DeltaTokens ==
  {<<op>> \o numberToString(n) : op \in {45, 61}, n \in 0..MaxCount}
    \cup {<<43, 97>>, <<43>>, <<>>,
          <<61, 32, 49>>, <<61, 49, 97>>, <<45, 43, 49>>,
          <<61, 45, 49>>, <<61>>, <<97>>}

Deltas ==
  {join(tokens, <<9>>) :
     tokens \in UNION {[1..k -> DeltaTokens] : k \in 1..MaxTokens}}

\* The caller enters dmp.diffFromDelta(text1, delta).
DiffFromDeltaEnter ==
  /\ pc = "new"
  /\ \E text1 \in Texts(MaxCount), delta \in Deltas :
       in' = [text1 |-> text1, delta |-> delta]
  /\ pc' = "diffFromDelta"
  /\ UNCHANGED <<cfg, out>>

\* diffFromDelta returns a script, or throws.
DiffFromDeltaReturn ==
  /\ pc = "diffFromDelta"
  /\ out' = diffFromDelta(in.text1, in.delta)
  /\ pc' = IF out'.error # "" THEN "thrown" ELSE "done"
  /\ UNCHANGED <<cfg, in>>

NextFromDelta == DiffFromDeltaEnter \/ DiffFromDeltaReturn

SpecFromDelta == InitDiff /\ [][NextFromDelta]_vars

\* The count of a token: the number after "=" or "-", 0 for the others.
tokenCount(token) ==
  IF token # <<>> /\ token[1] \in {45, 61}
       /\ parseInt(Tail(token)) # NaN
    THEN parseInt(Tail(token))
  ELSE 0

RECURSIVE countSum(_)
countSum(tokens) ==
  IF tokens = <<>> THEN 0 ELSE tokenCount(Head(tokens)) + countSum(Tail(tokens))

\* The sum of the "=" and "-" counts of a delta.
deltaCounts(delta) == countSum(split(delta, 9))

\* C13: diffFromDelta(text1, delta) throws, and returns no script, whenever
\* the sum of the "=" and "-" counts of the delta is not the length of
\* text1, be it less or more.
C13_LengthMismatch ==
  pc \in {"thrown", "done"} /\ deltaCounts(in.delta) # Len(in.text1)
    => pc = "thrown" /\ out.value = <<>>

\* Counts that add up to more than the length of text1: the last check of
\* diffFromDelta throws.
C13_Witness ==
  /\ pc = "thrown"
  /\ deltaCounts(in.delta) > Len(in.text1)
  /\ in.delta = <<61, 50, 9, 45, 51>>
  /\ in.text1 = <<97, 98, 97>>
  /\ out = Throw("Delta length does not equal source text length")

\* Counts that add up to less than the length of text1.
C13_Fewer ==
  /\ pc = "thrown"
  /\ deltaCounts(in.delta) < Len(in.text1)
  /\ out = Throw("Delta length does not equal source text length")

(***************************************************************************)
(* SpecFromText: patchFromText on texts of a few lines: headers, well      *)
(* formed or not, body lines of every sign, and blank lines.               *)
(***************************************************************************)
MaxLines == 3

\* "@@ -1 +1 @@", "@@ -1,2 +1,0 @@", "@@ -1, +1 @@", "@@ -1 +1 @",
\* "@@ -a +1 @@", "@@", "-a", "+a", " a", "", "xa", "-%"
PatchTextLines ==
  {<<64, 64, 32, 45, 49, 32, 43, 49, 32, 64, 64>>,
   <<64, 64, 32, 45, 49, 44, 50, 32, 43, 49, 44, 48, 32, 64, 64>>,
   <<64, 64, 32, 45, 49, 44, 32, 43, 49, 32, 64, 64>>,
   <<64, 64, 32, 45, 49, 32, 43, 49, 32, 64>>,
   <<64, 64, 32, 45, 97, 32, 43, 49, 32, 64, 64>>,
   <<64, 64>>,
   <<45, 97>>, <<43, 97>>, <<32, 97>>, <<>>, <<120, 97>>, <<45, 37>>}

PatchTexts ==
  {join(lines, <<10>>) :
     lines \in UNION {[1..k -> PatchTextLines] : k \in 1..MaxLines}}

\* The caller enters dmp.patchFromText(textline).
PatchFromTextEnter ==
  /\ pc = "new"
  /\ \E textline \in PatchTexts : in' = [textline |-> textline]
  /\ pc' = "patchFromText"
  /\ UNCHANGED <<cfg, out>>

\* patchFromText returns a list of patches, or throws.
PatchFromTextReturn ==
  /\ pc = "patchFromText"
  /\ out' = patchFromText(in.textline)
  /\ pc' = IF out'.error # "" THEN "thrown" ELSE "done"
  /\ UNCHANGED <<cfg, in>>

NextFromText == PatchFromTextEnter \/ PatchFromTextReturn

SpecFromText == InitDiff /\ [][NextFromText]_vars

\* An unsigned integer: one digit or more.
IsUint(s) == s # <<>> /\ \A i \in 1..Len(s) : s[i] \in 48..57

\* S or S,L
IsCoords(s) ==
  \E k \in 1..Len(s) :
    /\ IsUint(SubSeq(s, 1, k))
    /\ \/ k = Len(s)
       \/ s[k + 1] = 44 /\ IsUint(SubSeq(s, k + 2, Len(s)))

\* The line is "@@ -S1[,L1] +S2[,L2] @@".
IsHeader(line) ==
  \E i \in 5..(Len(line) - 5) :
    /\ SubSeq(line, 1, 4) = <<64, 64, 32, 45>>
    /\ IsCoords(SubSeq(line, 5, i - 1))
    /\ SubSeq(line, i, i + 1) = <<32, 43>>
    /\ IsCoords(SubSeq(line, i + 2, Len(line) - 3))
    /\ SubSeq(line, Len(line) - 2, Len(line)) = <<32, 64, 64>>

\* The first line and the lines that begin with "@" are at the position of
\* a header; the others are body lines.  One of the former is no header, or
\* one of the latter is not blank and has no sign.
Malformed(lines) ==
  \/ ~IsHeader(lines[1])
  \/ \E k \in 2..Len(lines) :
       /\ lines[k] # <<>>
       /\ IF lines[k][1] = 64 THEN ~IsHeader(lines[k])
          ELSE lines[k][1] \notin {32, 43, 45}

\* C14: patchFromText throws, and returns no list, on every text with a
\* line at a header position that is not "@@ -A[,B] +C[,D] @@", or with a
\* body line that is not blank and begins with a character other than
\* " ", "-", "+" and "@"; and it does not throw on blank lines between
\* the blocks.
C14_Rejects ==
  pc \in {"thrown", "done"} /\ in.textline # <<>>
    => /\ Malformed(split(in.textline, 10)) => pc = "thrown"
       /\ (\A k \in 1..Len(split(in.textline, 10)) :
             \/ split(in.textline, 10)[k] = <<>> /\ k > 1
             \/ IsHeader(split(in.textline, 10)[k]))
            => pc = "done"

(***************************************************************************)
(* SpecMatch: matchMain and matchBitap_ on short texts and patterns, at    *)
(* every loc in and around the text, with several thresholds and           *)
(* distances.                                                              *)
(***************************************************************************)
MaxTextLength == 4

MaxPatternLength == 3

\* 0, 0.5 and 0.7
MatchThresholds ==
  {[num |-> 0, den |-> 1], [num |-> 1, den |-> 2], [num |-> 7, den |-> 10]}

MatchDistances == {0, 4, 1000}

\* "a", once more than matchMaxBits times
LongPattern == [i \in 1..(Defaults.matchMaxBits + 1) |-> 97]

\* dmp.matchThreshold = t, before any call.
SetMatchThreshold ==
  /\ pc = "new"
  /\ \E t \in MatchThresholds : cfg' = [cfg EXCEPT !.matchThreshold = t]
  /\ UNCHANGED <<pc, in, out>>

\* dmp.matchDistance = n, before any call.
SetMatchDistance ==
  /\ pc = "new"
  /\ \E n \in MatchDistances : cfg' = [cfg EXCEPT !.matchDistance = n]
  /\ UNCHANGED <<pc, in, out>>

\* The caller enters dmp.matchMain(text, pattern, loc).
MatchMainEnter ==
  /\ pc = "new"
  /\ \E text \in Texts(MaxTextLength),
        pattern \in Texts(MaxPatternLength) \cup {LongPattern},
        loc \in (-1)..(MaxTextLength + 1) :
       in' = [text |-> text, pattern |-> pattern, loc |-> loc]
  /\ pc' = "matchMain"
  /\ UNCHANGED <<cfg, out>>

\* matchMain returns a location or -1, or throws.
MatchMainReturn ==
  /\ pc = "matchMain"
  /\ out' = matchMain(cfg, in.text, in.pattern, in.loc)
  /\ pc' = IF out'.error # "" THEN "thrown" ELSE "matched"
  /\ UNCHANGED <<cfg, in>>

\* matchBitap_ is entered with a text and a pattern that are not empty and
\* a loc inside the text.
MatchBitapEnter ==
  /\ pc = "new"
  /\ \E text \in Texts(MaxTextLength) \ {<<>>},
        pattern \in Texts(MaxPatternLength) \ {<<>>} :
       \E loc \in 0..Len(text) :
         in' = [text |-> text, pattern |-> pattern, loc |-> loc]
  /\ pc' = "matchBitap_"
  /\ UNCHANGED <<cfg, out>>

\* matchBitap_ returns a location or -1.
MatchBitapReturn ==
  /\ pc = "matchBitap_"
  /\ out' = matchBitap_(cfg, in.text, in.pattern, in.loc)
  /\ pc' = "bitap"
  /\ UNCHANGED <<cfg, in>>

NextMatch ==
  \/ SetMatchThreshold
  \/ SetMatchDistance
  \/ MatchMainEnter
  \/ MatchMainReturn
  \/ MatchBitapEnter
  \/ MatchBitapReturn

SpecMatch == InitDiff /\ [][NextMatch]_vars

\* loc, clamped to the text.
Clamped(loc, text) ==
  IF loc < 0 THEN 0 ELSE IF loc > Len(text) THEN Len(text) ELSE loc

\* pattern occurs in text at x.
OccursAt(text, pattern, x) ==
  /\ x + Len(pattern) <= Len(text)
  /\ SubSeq(text, x + 1, x + Len(pattern)) = pattern

\* C15: matchMain(text, pattern, loc) clamps loc to 0..|text|; it returns 0
\* when text is pattern, -1 when text is empty and pattern is not, the
\* clamped loc when pattern occurs in text exactly there (the empty
\* pattern does), and what matchBitap_ returns at the clamped loc
\* otherwise; with a pattern of at most matchMaxBits characters it never
\* throws.
C15_MatchMain ==
  /\ pc \in {"matched", "thrown"} /\ "pattern" \in DOMAIN in
       => out = IF in.text = in.pattern THEN Return(0)
                ELSE IF in.text = <<>> THEN Return(-1)
                ELSE IF OccursAt(in.text, in.pattern,
                                 Clamped(in.loc, in.text))
                  THEN Return(Clamped(in.loc, in.text))
                ELSE matchBitap_(cfg, in.text, in.pattern,
                                 Clamped(in.loc, in.text))
  /\ pc = "thrown" /\ "pattern" \in DOMAIN in
       => Len(in.pattern) > cfg.matchMaxBits

\* A loc past the end of the text, and the empty pattern: matchMain
\* returns the length of the text.
C15_Witness ==
  /\ pc = "matched"
  /\ in.loc > Len(in.text)
  /\ in.pattern = <<>>
  /\ in.text # <<>>
  /\ out = Return(Len(in.text))

\* No match: -1 and no error.
C15_NoMatch ==
  /\ pc = "matched"
  /\ in.text # <<>>
  /\ out = Return(-1)

\* The Levenshtein distance of a and b.
RECURSIVE editDistance(_, _)
editDistance(a, b) ==
  IF a = <<>> THEN Len(b)
  ELSE IF b = <<>> THEN Len(a)
  ELSE IF Head(a) = Head(b) THEN editDistance(Tail(a), Tail(b))
  ELSE 1 + Min(editDistance(Tail(a), Tail(b)),
               Min(editDistance(Tail(a), b), editDistance(a, Tail(b))))

\* The least number of errors of pattern against a part of text that
\* begins at x.
minErrors(text, pattern, x) ==
  SetMin({editDistance(pattern, SubSeq(text, x + 1, x + k)) :
            k \in 0..(Len(text) - x)})

diffCall(text1, text2, checklines, via) ==
  [text1 |-> text1, text2 |-> text2, checklines |-> checklines, via |-> via]

\* The texts diffCompute_ gets: without the common prefix and suffix.
trimmedSuffix(text1, text2, commonlength) ==
  <<substring(text1, 0, Len(text1) - commonlength),
    substring(text2, 0, Len(text2) - commonlength)>>

trimmedPrefix(text1, text2, commonlength) ==
  trimmedSuffix(substringFrom(text1, commonlength),
                substringFrom(text2, commonlength),
                diffCommonSuffix(substringFrom(text1, commonlength),
                                 substringFrom(text2, commonlength)))

trimmedPair(text1, text2) ==
  trimmedPrefix(text1, text2, diffCommonPrefix(text1, text2))

\* halfMatchCalls with the common middle left in the first of the calls.
halfMatchCallsWhole(hm, checklines) ==
  {diffCall(hm[1] \o hm[5] \o hm[2], hm[3] \o hm[5] \o hm[4], checklines,
            "half"),
   diffCall(hm[2], hm[4], checklines, "half")}

\* The two calls of diffCompute_ on the texts around a half match.
halfMatchCalls(hm, checklines) ==
  {diffCall(hm[1], hm[3], checklines, "half"),
   diffCall(hm[2], hm[4], checklines, "half")}

\* The two calls of diffBisectSplit_, when diffBisect_ finds an overlap.
bisectCalls(text1, text2, hit) ==
  IF hit = <<>> THEN {}
  ELSE {diffCall(substring(text1, 0, hit[1]), substring(text2, 0, hit[2]),
                 FALSE, "bisect"),
        diffCall(substringFrom(text1, hit[1]), substringFrom(text2, hit[2]),
                 FALSE, "bisect")}

\* The calls of the sweep of diffLineMode_, one for each block with a
\* deletion and an insertion.
RECURSIVE rediffCalls(_, _, _, _, _, _)
rediffCalls(diffs, pointer, countDelete, countInsert, textDelete, textInsert) ==
  IF pointer >= Len(diffs) THEN {}
  ELSE IF At(diffs, pointer).op = DIFF_INSERT
    THEN rediffCalls(diffs, pointer + 1, countDelete, countInsert + 1,
                     textDelete, textInsert \o At(diffs, pointer).text)
  ELSE IF At(diffs, pointer).op = DIFF_DELETE
    THEN rediffCalls(diffs, pointer + 1, countDelete + 1, countInsert,
                     textDelete \o At(diffs, pointer).text, textInsert)
  ELSE (IF countDelete >= 1 /\ countInsert >= 1
          THEN {diffCall(textDelete, textInsert, FALSE, "rediff")}
        ELSE {})
         \cup rediffCalls(diffs, pointer + 1, 0, 0, <<>>, <<>>)

\* The calls of diffLineMode_: on the encoded texts, and those of the sweep.
lineModeCalls(c, a, deadline) ==
  {diffCall(a.chars1, a.chars2, FALSE, "lines")}
    \cup rediffCalls(
           Append(diffCleanupSemantic(
                    diffCharsToLines_(
                      diffMain(c, a.chars1, a.chars2, FALSE, deadline).d,
                      a.lineArray)),
                  Diff(DIFF_EQUAL, <<>>)),
           0, 0, 0, <<>>, <<>>)

\* The calls of diffCompute_ from the half match on.
computeCallsHalves(c, text1, text2, hm, checklines, deadline) ==
  IF hm # <<>> THEN halfMatchCalls(hm, checklines)
  ELSE IF checklines /\ Len(text1) > LineModeMin /\ Len(text2) > LineModeMin
    THEN lineModeCalls(c, diffLinesToChars_(text1, text2), deadline)
  ELSE bisectCalls(text1, text2,
                   bisectLevels(text1, text2, bisectFrame(text1, text2),
                                bisectInit(bisectFrame(text1, text2)), 0,
                                deadline).hit)

\* The calls of diffCompute_(text1, text2, checklines, deadline).
computeCalls(c, text1, text2, checklines, deadline) ==
  IF text1 = <<>> \/ text2 = <<>> THEN {}
  ELSE IF (IF Len(text1) > Len(text2) THEN indexOf(text1, text2, 0)
           ELSE indexOf(text2, text1, 0)) # -1
    THEN {}
  ELSE IF Min(Len(text1), Len(text2)) = 1 THEN {}
  ELSE computeCallsHalves(c, text1, text2, diffHalfMatch_(c, text1, text2),
                          checklines, deadline)

\* The calls of diffMain(text1, text2, checklines, deadline).
diffMainCalls(c, text1, text2, checklines, deadline) ==
  IF text1 = text2 THEN {}
  ELSE computeCalls(c, trimmedPair(text1, text2)[1],
                    trimmedPair(text1, text2)[2], checklines, deadline)

(***************************************************************************)
(* SpecCalls: diffMain on the short texts of SpecDiff and on the long      *)
(* texts of SpecLines.                                                     *)
(***************************************************************************)
NextCalls ==
  \/ SetDiffTimeout
  \/ DiffMainEnter
  \/ DiffMainEnterLines
  \/ DiffMainReturn

SpecCalls == InitDiff /\ [][NextCalls]_vars

\* The calls the call that has returned made.
CallsMade ==
  diffMainCalls(cfg, in.text1, in.text2, in.checklines,
                IF cfg.diffTimeout <= 0 THEN Never ELSE in.budget)

\* The total length of two texts.
PairSize(text1, text2) == Len(text1) + Len(text2)

\* The call is on texts that are, together, shorter than those diffCompute_
\* was given.
Smaller(call) ==
  PairSize(call.text1, call.text2)
    < PairSize(trimmedPair(in.text1, in.text2)[1],
               trimmedPair(in.text1, in.text2)[2])

\* C17, as the spec states it: diffMain returns, and every call of
\* diffMain it makes, through the half match, the line mode or the split
\* of diffBisect_, is on a pair of texts smaller than the pair that
\* caused it.
C17_EveryCallSmaller ==
  pc = "done" => out # Hang /\ \A call \in CallsMade : Smaller(call)

\* C17, amended: diffMain returns; every call it makes through the half
\* match or the split of diffBisect_ is on a pair of texts smaller than the
\* pair that caused it; every call the line mode makes is without
\* checklines, so makes no call of the line mode itself, and is on texts
\* no longer than those that caused it.
C17_CallsEnd ==
  pc = "done"
    => /\ out # Hang
       /\ \A call \in CallsMade :
            IF call.via \in {"half", "bisect"} THEN Smaller(call)
            ELSE /\ ~call.checklines
                 /\ Len(call.text1) <= Len(trimmedPair(in.text1, in.text2)[1])
                 /\ Len(call.text2) <= Len(trimmedPair(in.text1, in.text2)[2])

\* A call with calls of each kind but the half match: the line mode, with
\* a call of its sweep on the very texts that caused it.
C17_Witness ==
  /\ pc = "done"
  /\ \E call \in CallsMade :
       /\ call.via = "rediff"
       /\ <<call.text1, call.text2>> = <<in.text1, in.text2>>
  /\ \E call \in CallsMade : call.via = "lines"

\* Calls through the split of diffBisect_.
C17_Bisect ==
  pc = "done" /\ \E call \in CallsMade : call.via = "bisect"

\* Calls through the half match.
C17_Half ==
  pc = "done" /\ \E call \in CallsMade : call.via = "half"

(***************************************************************************)
(* SpecBisect: diffBisect_ on every pair of short texts that are not       *)
(* empty, with a deadline that is never, or that a number of reads of the  *)
(* clock will find not yet passed.                                         *)
(***************************************************************************)
MaxDeadline == 4

\* The caller enters dmp.diffBisect_(text1, text2, deadline).
DiffBisectEnter ==
  /\ pc = "new"
  /\ \E text1 \in Texts(MaxLen) \ {<<>>}, text2 \in Texts(MaxLen) \ {<<>>},
        deadline \in {Never} \cup 0..MaxDeadline :
       in' = [text1 |-> text1, text2 |-> text2, deadline |-> deadline]
  /\ pc' = "diffBisect_"
  /\ UNCHANGED <<cfg, out>>

\* What the loop on d of diffBisect_ leaves: the overlap it found, if any,
\* and the deadline after its reads of the clock.
bisectSearch(text1, text2, deadline) ==
  bisectLevels(text1, text2, bisectFrame(text1, text2),
               bisectInit(bisectFrame(text1, text2)), 0, deadline)

\* diffBisect_ returns its script; hit and left are what its loop on d
\* found and left of the deadline, used the indices of v1 and v2 it read
\* or wrote.
DiffBisectReturn ==
  /\ pc = "diffBisect_"
  /\ out' = [d |-> diffBisect_(cfg, in.text1, in.text2, in.deadline).d,
             hit |-> bisectSearch(in.text1, in.text2, in.deadline).hit,
             left |-> bisectSearch(in.text1, in.text2, in.deadline).deadline,
             used |-> bisectSearch(in.text1, in.text2, in.deadline).used]
  /\ pc' = "bisected"
  /\ UNCHANGED <<cfg, in>>

NextBisect == DiffBisectEnter \/ DiffBisectReturn

SpecBisect == InitDiff /\ [][NextBisect]_vars

\* The levels of d that diffBisect_ starts when it has the time: the front
\* and the reverse path overlap at the level that is half the number of
\* characters to delete and insert, rounded up; and there are no more
\* levels than half the characters of the texts, rounded up.
LevelsNeeded(text1, text2) ==
  Min(((Len(text1) + Len(text2) - 2 * LCS(text1, text2) + 1) \div 2) + 1,
      (Len(text1) + Len(text2) + 1) \div 2)

\* C18: diffBisect_ reads the clock once at the start of each level of d
\* and nowhere else; when a read finds the deadline passed, no more of the
\* levels is explored and the script is [(DELETE, text1), (INSERT, text2)];
\* a deadline passed on entry gives that script at once.
C18_ClockPerLevel ==
  pc = "bisected" /\ in.deadline # Never
    => IF in.deadline < LevelsNeeded(in.text1, in.text2)
         THEN /\ out.hit = <<>>
              /\ out.left = 0
              /\ out.d = <<Diff(DIFF_DELETE, in.text1),
                           Diff(DIFF_INSERT, in.text2)>>
       ELSE out.left = in.deadline - LevelsNeeded(in.text1, in.text2)

\* The deadline passes at the start of the third level: two reads of the
\* clock found time, and the script is the deletion and the insertion.
C18_Witness ==
  /\ pc = "bisected"
  /\ in.deadline = 2
  /\ LevelsNeeded(in.text1, in.text2) > 2
  /\ out.left = 0
  /\ out.d = <<Diff(DIFF_DELETE, in.text1), Diff(DIFF_INSERT, in.text2)>>

(***************************************************************************)
(* Properties of the cleanups.                                             *)
(***************************************************************************)
\* No diff of the script has an empty text.
NoEmptyText(diffs) == \A i \in 1..Len(diffs) : diffs[i].text # <<>>

\* No two diffs next to each other have the same operation.
NoSameNeighbours(diffs) ==
  \A i \in 1..(Len(diffs) - 1) : diffs[i].op # diffs[i + 1].op

\* C19: diffCleanupMerge, on any script, with its operations in any order
\* and empty texts anywhere, leaves a script without a diff of empty text
\* and without two diffs of the same operation next to each other.
C19_MergedAndDropped ==
  pc = "done" => NoEmptyText(out) /\ NoSameNeighbours(out)

(***************************************************************************)
(* SpecCleanup: each of the four cleanups on every short script, and on    *)
(* longer scripts of texts of at most one character.                       *)
(***************************************************************************)
MaxLongOps == 5

Cleanups ==
  {"diffCleanupMerge", "diffCleanupSemantic", "diffCleanupSemanticLossless",
   "diffCleanupEfficiency"}

CleanupScripts ==
  Scripts(Texts(MaxTextLen), MaxOps) \cup Scripts(Texts(1), MaxLongOps)

\* dmp.diffEditCost = n, before any call.
SetDiffEditCost ==
  /\ pc = "new"
  /\ \E n \in {2, 4} : cfg' = [cfg EXCEPT !.diffEditCost = n]
  /\ UNCHANGED <<pc, in, out>>

\* The caller enters one of the cleanups with diffs.
CleanupEnter ==
  /\ pc = "new"
  /\ \E cleanup \in Cleanups, diffs \in CleanupScripts :
       in' = [diffs |-> diffs, cleanup |-> cleanup]
  /\ pc' = "cleanup"
  /\ UNCHANGED <<cfg, out>>

\* The script the cleanup leaves, or Hang.
cleanupOf(c, cleanup, diffs) ==
  IF cleanup = "diffCleanupMerge" THEN diffCleanupMerge(diffs)
  ELSE IF cleanup = "diffCleanupSemantic" THEN diffCleanupSemantic(diffs)
  ELSE IF cleanup = "diffCleanupSemanticLossless"
    THEN diffCleanupSemanticLossless(diffs)
  ELSE diffCleanupEfficiency(c, diffs)

\* The cleanup leaves diffs rewritten, unless it never returns.
CleanupReturn ==
  /\ pc = "cleanup"
  /\ out' = cleanupOf(cfg, in.cleanup, in.diffs)
  /\ pc' = IF out' = Hang THEN "hung" ELSE "done"
  /\ UNCHANGED <<cfg, in>>

NextCleanup == SetDiffEditCost \/ CleanupEnter \/ CleanupReturn

SpecCleanup == InitDiff /\ [][NextCleanup]_vars

\* diffCleanupEfficiency has replaced an equality by a deletion and an
\* insertion.
C20_Witness ==
  /\ pc = "done"
  /\ "cleanup" \in DOMAIN in
  /\ in.cleanup = "diffCleanupEfficiency"
  /\ Len(in.diffs) = MaxLongOps
  /\ out # in.diffs
  /\ \A i \in 1..Len(out) : out[i].op # DIFF_EQUAL
  /\ diffText1(out) = diffText1(in.diffs)
  /\ diffText2(out) = diffText2(in.diffs)

\* C20: after diffCleanupMerge, diffCleanupSemantic,
\* diffCleanupSemanticLossless or diffCleanupEfficiency has rewritten a
\* script, diffText1 and diffText2 of it are what they were before.
C20_TextsKept ==
  pc = "done" /\ "cleanup" \in DOMAIN in
    => /\ diffText1(out) = diffText1(in.diffs)
       /\ diffText2(out) = diffText2(in.diffs)

(***************************************************************************)
(* SpecStrings: the helpers that compare two strings, each on every pair   *)
(* of short texts, in an engine whose diffTimeout the caller sets.         *)
(***************************************************************************)
MaxStringLen == 6

Helpers ==
  {"diffCommonPrefix", "diffCommonSuffix", "diffCommonOverlap_",
   "diffHalfMatch_"}

\* The caller enters one of the helpers with text1 and text2.
HelperEnter ==
  /\ pc = "new"
  /\ \E helper \in Helpers,
        text1 \in Texts(MaxStringLen), text2 \in Texts(MaxStringLen) :
       in' = [helper |-> helper, text1 |-> text1, text2 |-> text2]
  /\ pc' = "helper"
  /\ UNCHANGED <<cfg, out>>

\* What the helper returns: a number, or for diffHalfMatch_ an array of five
\* strings or null (the empty tuple).
helperOf(c, helper, text1, text2) ==
  IF helper = "diffCommonPrefix" THEN diffCommonPrefix(text1, text2)
  ELSE IF helper = "diffCommonSuffix" THEN diffCommonSuffix(text1, text2)
  ELSE IF helper = "diffCommonOverlap_" THEN diffCommonOverlap_(text1, text2)
  ELSE diffHalfMatch_(c, text1, text2)

\* The helper returns.
HelperReturn ==
  /\ pc = "helper"
  /\ out' = helperOf(cfg, in.helper, in.text1, in.text2)
  /\ pc' = "returned"
  /\ UNCHANGED <<cfg, in>>

NextStrings == SetDiffTimeout \/ HelperEnter \/ HelperReturn

SpecStrings == InitDiff /\ [][NextStrings]_vars

\* The helper named has returned.
Returned(helper) == pc = "returned" /\ in.helper = helper

RECURSIVE prefixScan(_, _, _)
\* The reference scan: characters compared one by one from the start, k of
\* them found equal so far.
prefixScan(a, b, k) ==
  IF k < Len(a) /\ k < Len(b) /\ a[k + 1] = b[k + 1]
  THEN prefixScan(a, b, k + 1)
  ELSE k

RECURSIVE suffixScan(_, _, _)
\* The same from the end.
suffixScan(a, b, k) ==
  IF k < Len(a) /\ k < Len(b) /\ a[Len(a) - k] = b[Len(b) - k]
  THEN suffixScan(a, b, k + 1)
  ELSE k

\* C25: diffCommonPrefix and diffCommonSuffix return the length of the
\* longest shared prefix and suffix, as a scan character by character finds
\* it, for every pair of strings; that is 0 when either string is empty or
\* the first (the last) characters differ.
C25_BinarySearchExact ==
  /\ Returned("diffCommonPrefix")
       => /\ out = prefixScan(in.text1, in.text2, 0)
          /\ (in.text1 = <<>> \/ in.text2 = <<>>
                \/ Head(in.text1) # Head(in.text2)) => out = 0
  /\ Returned("diffCommonSuffix")
       => /\ out = suffixScan(in.text1, in.text2, 0)
          /\ (in.text1 = <<>> \/ in.text2 = <<>>
                \/ in.text1[Len(in.text1)] # in.text2[Len(in.text2)])
               => out = 0

\* The search has found a prefix that is neither empty nor the whole of the
\* shorter text, after comparisons that failed and comparisons that held.
C25_Witness ==
  /\ Returned("diffCommonPrefix")
  /\ Len(in.text1) = MaxStringLen
  /\ Len(in.text2) = MaxStringLen - 1
  /\ out = 3

RECURSIVE overlapLoopPasses(_, _, _, _)
\* The passes of the while (true) loop of diffCommonOverlap_ before it
\* returns: length is the length it tries next.
overlapLoopPasses(text1, text2, textLength, length) ==
  LET found == indexOf(text2, substringFrom(text1, textLength - length), 0)
  IN IF found = -1 THEN 1
     ELSE IF found = 0
             \/ substringFrom(text1, textLength - (length + found))
                  = substring(text2, 0, length + found)
     THEN 1 + overlapLoopPasses(text1, text2, textLength, length + found + 1)
     ELSE 1 + overlapLoopPasses(text1, text2, textLength, length + found)

\* The passes of the loop in a call of diffCommonOverlap_, 0 when it returns
\* before the loop.
diffCommonOverlapPasses(text1, text2) ==
  LET textLength == Min(Len(text1), Len(text2))
      t1 == substringFrom(text1, Len(text1) - textLength)
      t2 == substring(text2, 0, textLength)
  IN IF textLength = 0 \/ t1 = t2 THEN 0
     ELSE overlapLoopPasses(t1, t2, textLength, 1)

\* The last k characters of a are the first k characters of b.
Overlaps(a, b, k) ==
  /\ k <= Len(a)
  /\ k <= Len(b)
  /\ SubSeq(a, Len(a) - k + 1, Len(a)) = SubSeq(b, 1, k)

\* C26: diffCommonOverlap_ returns the largest k from 0 to the length of
\* the shorter string for which the last k characters of text1 are the
\* first k characters of text2, for every pair of strings (0 when either
\* is empty): its search by indexOf skips no larger overlap, and it ends.
C26_LargestOverlap ==
  /\ Returned("diffCommonOverlap_")
       => /\ out \in 0..Min(Len(in.text1), Len(in.text2))
          /\ diffCommonOverlapPasses(in.text1, in.text2)
               <= Min(Len(in.text1), Len(in.text2))
          /\ Overlaps(in.text1, in.text2, out)
          /\ \A k \in (out + 1)..Min(Len(in.text1), Len(in.text2)) :
               ~Overlaps(in.text1, in.text2, k)
          /\ (in.text1 = <<>> \/ in.text2 = <<>>) => out = 0

\* The pattern was found away from the start of text2 (so the search jumped
\* ahead), a shorter overlap was found first, and the longest one is neither
\* of the whole texts.
C26_Witness ==
  /\ Returned("diffCommonOverlap_")
  /\ out = 3
  /\ Overlaps(in.text1, in.text2, 1)
  /\ ~Overlaps(in.text1, in.text2, 2)
  /\ indexOf(in.text2, SubSeq(in.text1, Len(in.text1) - 1, Len(in.text1)), 0) > 0
  /\ Len(in.text1) > 3
  /\ Len(in.text2) > 3

\* C24: diffHalfMatch_ returns null whenever diffTimeout <= 0; an array
\* (p1, s1, p2, s2, mid) it returns takes both texts apart, text1 being
\* p1 + mid + s1 and text2 being p2 + mid + s2, with mid at least half as
\* long as the longer text: its first two elements are of text1 whichever
\* text is the longer, and when they are equally long.
C24_HalfMatchDecomposes ==
  Returned("diffHalfMatch_")
    => /\ cfg.diffTimeout <= 0 => out = <<>>
       /\ out # <<>>
            => /\ Len(out) = 5
               /\ in.text1 = out[1] \o out[5] \o out[2]
               /\ in.text2 = out[3] \o out[5] \o out[4]
               /\ 2 * Len(out[5]) >= Max(Len(in.text1), Len(in.text2))

\* A half match of two texts equally long, which stands at different places
\* in them.
C24_Witness ==
  /\ Returned("diffHalfMatch_")
  /\ out # <<>>
  /\ Len(in.text1) = Len(in.text2)
  /\ Len(out[1]) # Len(out[3])
  /\ out[2] # out[4]

(***************************************************************************)
(* SpecEncode: diffLinesToChars_ on every pair of texts of a few short     *)
(* lines, and diffCharsToLines_ on what it returns.                        *)
(***************************************************************************)
MaxTextLines == 2

\* "a\n", "b\n", "\n" and "valueOf\n"
EncodeLines ==
  {<<97, 10>>, <<98, 10>>, <<10>>,
   <<118, 97, 108, 117, 101, 79, 102, 10>>}

\* A last line without line feed: none, "a" or "valueOf".
EncodeLastLines == {<<>>, <<97>>, <<118, 97, 108, 117, 101, 79, 102>>}

EncodeTexts ==
  {Concat(ls) \o last :
     ls \in UNION {[1..n -> EncodeLines] : n \in 0..MaxTextLines},
     last \in EncodeLastLines}

\* The caller enters dmp.diffLinesToChars_(text1, text2).
DiffLinesToCharsEnter ==
  /\ pc = "new"
  /\ \E text1 \in EncodeTexts, text2 \in EncodeTexts :
       in' = [text1 |-> text1, text2 |-> text2]
  /\ pc' = "diffLinesToChars_"
  /\ UNCHANGED <<cfg, out>>

\* diffLinesToChars_ returns {chars1, chars2, lineArray}.
DiffLinesToCharsReturn ==
  /\ pc = "diffLinesToChars_"
  /\ out' = diffLinesToChars_(in.text1, in.text2)
  /\ pc' = "encoded"
  /\ UNCHANGED <<cfg, in>>

\* The caller passes chars1 and chars2, each as the text of one diff, to
\* diffCharsToLines_ with the lineArray returned.
DiffCharsToLinesCall ==
  /\ pc = "encoded"
  /\ out' = [encoded |-> out,
             diffs |-> diffCharsToLines_(<<Diff(DIFF_DELETE, out.chars1),
                                           Diff(DIFF_INSERT, out.chars2)>>,
                                         out.lineArray)]
  /\ pc' = "decoded"
  /\ UNCHANGED <<cfg, in>>

NextEncode ==
  DiffLinesToCharsEnter \/ DiffLinesToCharsReturn \/ DiffCharsToLinesCall

SpecEncode == InitDiff /\ [][NextEncode]_vars

RECURSIVE linesOf(_)
\* The lines of a text, each with its line feed, the last one perhaps
\* without.
linesOf(text) ==
  IF text = <<>> THEN <<>>
  ELSE LET nl == indexOf(text, <<10>>, 0)
       IN IF nl = -1 THEN <<text>>
          ELSE <<SubSeq(text, 1, nl + 1)>>
                 \o linesOf(SubSeq(text, nl + 2, Len(text)))

\* chars has one code of 1 or more for each line of text, and lineArray
\* holds that line at the code.
EncodesLines(chars, lineArray, text) ==
  /\ Len(chars) = Len(linesOf(text))
  /\ \A k \in 1..Len(chars) :
       /\ chars[k] >= 1
       /\ chars[k] \in DOMAIN lineArray
       /\ lineArray[chars[k]] = linesOf(text)[k]

\* C21: diffLinesToChars_ gives each distinct line, whatever it holds, a
\* code of 1 or more of its own, the same in both texts (the same line has
\* the same code, two lines that differ have codes that differ, no code is
\* 0), and diffCharsToLines_ with the lineArray returned turns chars1 and
\* chars2 back into text1 and text2.
C21_LinesBijection ==
  /\ pc = "encoded"
       => /\ EncodesLines(out.chars1, out.lineArray, in.text1)
          /\ EncodesLines(out.chars2, out.lineArray, in.text2)
          /\ \A i, j \in DOMAIN out.lineArray \ {0} :
               i # j => out.lineArray[i] # out.lineArray[j]
  /\ pc = "decoded"
       => /\ out.diffs[1].text = in.text1
          /\ out.diffs[2].text = in.text2

(***************************************************************************)
(* SpecXIndex: diffXIndex on every short script and every location of its  *)
(* source text.                                                            *)
(***************************************************************************)
\* The caller enters dmp.diffXIndex(diffs, loc).
DiffXIndexEnter ==
  /\ pc = "new"
  /\ \E diffs \in Scripts(Texts(MaxTextLen), MaxOps) :
       \E loc \in 0..Len(diffText1(diffs)) :
         in' = [diffs |-> diffs, loc |-> loc]
  /\ pc' = "diffXIndex"
  /\ UNCHANGED <<cfg, out>>

\* diffXIndex returns the location in text2.
DiffXIndexReturn ==
  /\ pc = "diffXIndex"
  /\ out' = diffXIndex(in.diffs, in.loc)
  /\ pc' = "located"
  /\ UNCHANGED <<cfg, in>>

NextXIndex == DiffXIndexEnter \/ DiffXIndexReturn

SpecXIndex == InitDiff /\ [][NextXIndex]_vars

\* The lengths of the source and of the destination text before diff k
\* (from 1) of the script.
SourceBefore(diffs, k) == Len(diffText1(SubSeq(diffs, 1, k - 1)))

DestinationBefore(diffs, k) == Len(diffText2(SubSeq(diffs, 1, k - 1)))

\* loc is a position of the source text held by diff k: a character of it,
\* which an equality or a deletion holds.
Holds(diffs, k, loc) ==
  /\ diffs[k].op # DIFF_INSERT
  /\ SourceBefore(diffs, k) <= loc
  /\ loc < SourceBefore(diffs, k) + Len(diffs[k].text)

\* C27: diffXIndex(diffs, loc), for every script and every loc from 0 to
\* the length of diffText1(diffs), is from 0 to the length of
\* diffText2(diffs) and does not go down as loc goes up; for loc in a
\* deletion it is the place in the destination where the deletion starts,
\* otherwise the length of the destination before the diff that holds loc
\* plus what loc is beyond the source before that diff (at the end of the
\* source, the end of the destination).
C27_MapsToDestination ==
  pc = "located"
    => /\ out \in 0..Len(diffText2(in.diffs))
       /\ in.loc < Len(diffText1(in.diffs))
            => out <= diffXIndex(in.diffs, in.loc + 1)
       /\ \A k \in 1..Len(in.diffs) :
            Holds(in.diffs, k, in.loc)
              => out = IF in.diffs[k].op = DIFF_DELETE
                       THEN DestinationBefore(in.diffs, k)
                       ELSE DestinationBefore(in.diffs, k)
                              + (in.loc - SourceBefore(in.diffs, k))
       /\ in.loc = Len(diffText1(in.diffs))
            => out = Len(diffText2(in.diffs))

\* A location inside a deletion that follows an insertion: it maps to where
\* the deletion starts, after the text inserted.
C27_Witness ==
  /\ pc = "located"
  /\ Len(in.diffs) = 3
  /\ in.diffs[1].op = DIFF_INSERT
  /\ in.diffs[2].op = DIFF_DELETE
  /\ in.diffs[3].op = DIFF_EQUAL
  /\ Len(in.diffs[1].text) = 2
  /\ Holds(in.diffs, 2, in.loc)
  /\ in.loc = 1
  /\ out = 2

(***************************************************************************)
(* The calls diffCleanupMerge makes of itself.                             *)
(***************************************************************************)
\* diffCleanupMerge was called and has returned.
MergeReturned ==
  pc = "done" /\ "cleanup" \in DOMAIN in /\ in.cleanup = "diffCleanupMerge"

\* C28: diffCleanupMerge returns on every script; each call it makes of
\* itself follows a second sweep that has removed at least one diff, these
\* calls are no more than the script has diffs, and the second sweep of the
\* last call changes nothing.
C28_MergeEnds ==
  MergeReturned
    => LET passes == mergePasses(in.diffs)
       IN /\ Len(passes) - 1 <= Len(in.diffs)
          /\ \A k \in 1..(Len(passes) - 1) :
               /\ passes[k].changes
               /\ Len(passes[k].shifted) < Len(passes[k].swept)
          /\ ~passes[Len(passes)].changes
          /\ passes[Len(passes)].shifted = passes[Len(passes)].swept
          /\ out = passes[Len(passes)].shifted

\* diffCleanupMerge has called itself, and the call has called itself again;
\* the third call shifts nothing.
C28_Witness ==
  /\ MergeReturned
  /\ Len(mergePasses(in.diffs)) = 3
  /\ out # in.diffs

(***************************************************************************)
(* The indices of the vectors of diffBisect_.                              *)
(***************************************************************************)
\* C30: in diffBisect_, for every pair of non-empty texts, every index at
\* which v1 or v2 is read or written (the first writes at maxD + 1, and
\* the reads at k1Offset - 1 and k1Offset + 1, included) is from 0 to
\* 2 * maxD - 1, inside the vectors of length 2 * maxD that were filled
\* with -1.
C30_IndicesInside ==
  pc = "bisected"
    => out.used \subseteq 0..(bisectFrame(in.text1, in.text2).vLength - 1)

\* The same for the texts that make vectors of more than 2 elements.
C30_InsideLonger ==
  pc = "bisected" /\ Len(in.text1) + Len(in.text2) > 2
    => out.used \subseteq 0..(bisectFrame(in.text1, in.text2).vLength - 1)

(***************************************************************************)
(* The drift delta of patchApply (SpecPatch).                              *)
(***************************************************************************)
\* delta after patch k (from 1) of the working list follows the rule, a
\* patch being taken as applied when its result is true.
DeltaRule(k) ==
  /\ out.locs[k].expectedLoc = out.locs[k].start2 + out.deltas[k]
  /\ out.deltas[k + 1]
       = IF out.results[k]
         THEN out.locs[k].startLoc - out.locs[k].expectedLoc
         ELSE out.deltas[k] - (out.locs[k].length2 - out.locs[k].length1)

\* C23: in patchApply, after each patch x in the order of the list,
\* delta is startLoc - expectedLoc when the patch was located (expectedLoc
\* being start2 plus the delta before), and the delta before less
\* length2 - length1 of the patch when it was not located; a patch refused
\* for the poor match of a big deletion is made up for as one not located.
C23_DeltaCarried ==
  pc = "done"
    => /\ Len(out.deltas) = Len(out.results) + 1
       /\ Len(out.locs) = Len(out.results)
       /\ \A k \in 1..Len(out.results) : DeltaRule(k)

\* The same for the patches that are not refused after being located.
C23_UnlessRefused ==
  pc = "done"
    => \A k \in 1..Len(out.results) :
         out.results[k] \/ out.locs[k].startLoc = -1 => DeltaRule(k)

(***************************************************************************)
(* What patchSplitMax leaves (SpecPatchOps).                               *)
(***************************************************************************)
\* The last call on the list was patchSplitMax.
SplitReturned ==
  pc = "made" /\ "call" \in DOMAIN in /\ in.call = "patchSplitMax"

\* The text the patches of the list were made for, with the padding the
\* calls of patchAddPadding have put around it.
RECURSIVE PaddedSource(_, _)
PaddedSource(text, pads) ==
  IF pads = 0 THEN text
  ELSE PaddedSource([x \in 1..Defaults.patchMargin |-> x] \o text
                      \o [x \in 1..Defaults.patchMargin |-> x], pads - 1)

\* The patches one after the other, each on the text the ones before it
\* have left: the text of the patch is found at its start2, and replaced
\* there.
RECURSIVE Fits(_, _)
Replaced(patch, text) ==
  SubSeq(text, 1, patch.start2) \o diffText2(patch.diffs)
    \o SubSeq(text, patch.start2 + patch.length1 + 1, Len(text))

Fits(patches, text) ==
  \/ patches = <<>>
  \/ /\ Head(patches).start2 >= 0
     /\ Head(patches).start2 + Head(patches).length1 <= Len(text)
     /\ SubSeq(text, Head(patches).start2 + 1,
               Head(patches).start2 + Head(patches).length1)
          = diffText1(Head(patches).diffs)
     /\ Fits(Tail(patches), Replaced(Head(patches), text))

RECURSIVE Effect(_, _)
Effect(patches, text) ==
  IF patches = <<>> THEN text
  ELSE Effect(Tail(patches), Replaced(Head(patches), text))

\* A fragment that passes whole: an equality, then one deletion of more than
\* twice matchMaxBits characters, and the context after it if any.
BigDelete(patch) ==
  /\ Len(patch.diffs) \in {2, 3}
  /\ patch.diffs[1].op = DIFF_EQUAL
  /\ patch.diffs[2].op = DIFF_DELETE
  /\ Len(patch.diffs[2].text) > 2 * cfg.matchMaxBits
  /\ Len(patch.diffs) = 3 => patch.diffs[3].op = DIFF_EQUAL

\* C22: after patchSplitMax every patch of the list has length1 of at most
\* matchMaxBits, but for a fragment that opens with an equality followed by
\* one deletion of more than 2 * matchMaxBits characters, which passes
\* whole; and the fragments, applied one after the other to the source, do
\* to it what the patches they replace did.
C22_NoneOverMaxBits ==
  SplitReturned
    => /\ \A x \in 1..Len(out) :
            out[x].length1 <= cfg.matchMaxBits \/ BigDelete(out[x])
       /\ Fits(in.patches, PaddedSource(in.text1, Pads(in)))
            => /\ Fits(out, PaddedSource(in.text1, Pads(in)))
               /\ Effect(out, PaddedSource(in.text1, Pads(in)))
                    = Effect(in.patches, PaddedSource(in.text1, Pads(in)))

\* A patch too long was replaced by fragments, which rebuild text2 from
\* text1 as it did.
C22_Witness ==
  /\ SplitReturned
  /\ Pads(in) = 0
  /\ Len(out) > Len(in.patches)
  /\ \E x \in 1..Len(in.patches) : in.patches[x].length1 > cfg.matchMaxBits
  /\ \A x \in 1..Len(out) : out[x].length1 <= cfg.matchMaxBits
  /\ Fits(in.patches, in.text1)
  /\ Effect(out, in.text1) = in.text2

(***************************************************************************)
(* SpecPatchMake: patchMake in each of its four call formats.  An argument *)
(* is undefined, a string or an array of diffs.                            *)
(***************************************************************************)
Undefined == [type |-> "undefined"]

String(s) == [type |-> "string", value |-> s]

Object(diffs) == [type |-> "object", value |-> diffs]

\* patchMake(a, optB, optC): the patches, Hang when a cleanup does not
\* return, or the error thrown for an unknown call format.
patchMakeArgs(c, a, optB, optC, budget) ==
  IF a.type = "string" /\ optB.type = "string" /\ optC.type = "undefined"
    THEN Return(patchMake(c, a.value, optB.value, budget))
  ELSE IF a.type = "object" /\ optB.type = "undefined"
          /\ optC.type = "undefined"
    THEN Return(patchMakeDiffs(c, diffText1(a.value), a.value))
  ELSE IF a.type = "string" /\ optB.type = "object"
          /\ optC.type = "undefined"
    THEN Return(patchMakeDiffs(c, a.value, optB.value))
  ELSE IF a.type = "string" /\ optB.type = "string" /\ optC.type = "object"
    THEN Return(patchMakeDiffs(c, a.value, optC.value))
  ELSE Throw("Unknown call format to patchMake.")

MaxMakeOps == 4

\* "", "a", 2 * patchMargin times "c", and Gap
MakeTexts ==
  {<<>>, <<97>>, [i \in 1..(2 * Defaults.patchMargin) |-> 99], Gap}

MakeScripts == Scripts(MakeTexts, MaxMakeOps)

\* The arguments of call format 1, 2, 3 or 4 for a script and its texts.
MakeArgs(method, diffs) ==
  IF method = 1
    THEN <<String(diffText1(diffs)), String(diffText2(diffs)), Undefined>>
  ELSE IF method = 2 THEN <<Object(diffs), Undefined, Undefined>>
  ELSE IF method = 3
    THEN <<String(diffText1(diffs)), Object(diffs), Undefined>>
  ELSE <<String(diffText1(diffs)), String(diffText2(diffs)), Object(diffs)>>

\* The caller enters dmp.patchMake(a, optB, optC).
PatchMakeArgsEnter ==
  /\ pc = "new"
  /\ \E diffs \in MakeScripts, method \in 1..4 :
       in' = [a |-> MakeArgs(method, diffs)[1],
              optB |-> MakeArgs(method, diffs)[2],
              optC |-> MakeArgs(method, diffs)[3], budget |-> 0]
  /\ pc' = "patchMakeArgs"
  /\ UNCHANGED <<cfg, out>>

\* patchMake returns its patches, unless it never returns.
PatchMakeArgsReturn ==
  /\ pc = "patchMakeArgs"
  /\ out' = patchMakeArgs(cfg, in.a, in.optB, in.optC, in.budget).value
  /\ pc' = IF out' = Hang THEN "hung" ELSE "made"
  /\ UNCHANGED <<cfg, in>>

NextPatchMake ==
  \/ SetDiffTimeout
  \/ PatchMakeEnter
  \/ PatchMakeReturn
  \/ PatchMakeArgsEnter
  \/ PatchMakeArgsReturn

SpecPatchMake == InitDiff /\ [][NextPatchMake]_vars

\* C29: every patch patchMake returns, in each of its four call formats
\* and for any diffs, has start1 equal to start2, and neither below 0: the
\* coordinates of a patch are those of the text as the patches before it
\* leave it.
C29_RollingContext ==
  pc = "made"
    => \A x \in 1..Len(out) :
         /\ out[x].start1 = out[x].start2
         /\ out[x].start1 # Null
         /\ out[x].start1 >= 0

\* Two patches made from diffs alone, the first of which changes the length
\* of the text: the second starts where its text is once the first has
\* been applied.
C29_Witness ==
  /\ pc = "made"
  /\ "a" \in DOMAIN in
  /\ in.a.type = "object"
  /\ Len(out) = 2
  /\ out[1].length1 > out[1].length2
  /\ out[2].start1 = out[2].start2
  /\ out[2].start2 > 0
  /\ out[2].start2
       < Len(diffText1(in.a.value)) - Len(diffText1(out[2].diffs))
====
